---- MODULE Spec2Model ----
(***************************************************************************)
(* DataDriftDetector (federated_health_risk/monitoring/drift_detector.py). *)
(*                                                                         *)
(* A dataset is a sequence of columns, each a record                       *)
(*   [name, numeric, values]; a missing cell (NaN) is the value Null.      *)
(* Real numbers are kept exactly as rationals [num, den] where the code    *)
(* only compares them (KS p-value, threshold, drift percentage) and in     *)
(* fixed point, in units of 1/Scale, where the code takes logarithms       *)
(* (PSI).  A float that is NaN is the record with nan = TRUE.              *)
(*                                                                         *)
(* Spec is one call on a constructed detector.  SpecSave follows a report  *)
(* into save_report and runs monitor_drift_from_files, over the states of  *)
(* the output location.  SpecLife is a detector called again and again by  *)
(* a caller that also changes the objects it shares with the detector.     *)
(* SpecScenario is Spec over the datasets of the documented scenarios, and *)
(* SpecPair two detectors of one process.                                  *)
(*                                                                         *)
(* The other programs of the repository have a variable and a              *)
(* specification each: SpecFeatures (pipelines/feature_builder.py),        *)
(* SpecLabels (data/risk_labeling.py), SpecFed                             *)
(* (run_aggregation_visualization.py), SpecChecks (monitoring/run_checks   *)
(* and monitoring/drift) and SpecExperiment                                *)
(* (scripts/run_federated_experiment.py).                                  *)
(***************************************************************************)
EXTENDS Integers, Sequences, FiniteSets, TLC

\* ------------------------------------------------------------------ bounds
MaxLen == 3          \* rows of a dataset in the value family
MaxVal == 2          \* cell values are 0..MaxVal, or Null
StructRows == 2      \* rows of a dataset in the column-structure family

\* --------------------------------------------------------------- constants
Null == -1           \* a missing cell (pandas NaN), removed by dropna()
Bins == 10           \* detect_drift_psi(bins=10)
Scale == 10000       \* fixed-point unit 0.0001: the floor of an empty bin
PsiModerate == 1000      \* 0.1 in units of 1/Scale
PsiSignificant == 2000   \* 0.2 in units of 1/Scale
Ln2 == 6931          \* ln(2) in units of 1/Scale

Values == 0..MaxVal
Cells == Values \cup {Null}

\* ---------------------------------------------------------------- numbers
NaN == [nan |-> TRUE, v |-> 0]
Num(x) == [nan |-> FALSE, v |-> x]
RNaN == [nan |-> TRUE, num |-> 0, den |-> 1]
Rat(n, d) == [nan |-> FALSE, num |-> n, den |-> d]

\* float comparisons: every comparison with NaN is False
RatLt(a, b) == ~a.nan /\ ~b.nan /\ a.num * b.den < b.num * a.den
FixGe(a, k) == ~a.nan /\ a.v >= k

Abs(x) == IF x < 0 THEN -x ELSE x

RECURSIVE SumSeq(_)
SumSeq(s) == IF s = <<>> THEN 0 ELSE Head(s) + SumSeq(Tail(s))

\* ------------------------------------------------------------- data frame
dropna(s) == SelectSeq(s, LAMBDA v : v # Null)

HasColumn(df, c) == \E i \in 1..Len(df) : df[i].name = c
Column(df, c) == df[CHOOSE i \in 1..Len(df) : df[i].name = c].values
NumRows(df) == IF df = <<>> THEN 0 ELSE Len(df[1].values)

\* select_dtypes(include=[np.number]).columns: the numeric columns, in order
NumericColumns(df) ==
    LET keep == SelectSeq(df, LAMBDA c : c.numeric)
    IN [i \in 1..Len(keep) |-> keep[i].name]


\* ------------------------------------------------------- scipy.stats, numpy
RECURSIVE Choose(_, _)
Choose(n, k) == IF k = 0 THEN 1 ELSE (Choose(n - 1, k - 1) * n) \div k

CountLE(s, v) == Cardinality({i \in 1..Len(s) : s[i] <= v})

\* One row of the lattice: acc[j + 1] is the number of monotone paths from
\* (0, 0) to (i, j) on which the two empirical distribution functions stay
\* strictly closer than D/(n*m); prev is the row of i - 1.
RECURSIVE PathRow(_, _, _, _, _, _)
PathRow(prev, acc, i, n, m, D) ==
    LET j == Len(acc)
        val == IF Abs(i * m - j * n) >= D THEN 0
               ELSE IF i = 0 /\ j = 0 THEN 1
               ELSE (IF i > 0 THEN prev[j + 1] ELSE 0) + (IF j > 0 THEN acc[j] ELSE 0)
    IN IF j > m THEN acc
       ELSE CHOOSE row \in {PathRow(prev, next, i, n, m, D) :
                               next \in {Append(acc, val)}} : TRUE

RECURSIVE PathRows(_, _, _, _, _)
PathRows(prev, i, n, m, D) ==
    CHOOSE out \in {IF i = n THEN row[m + 1] ELSE PathRows(row, i + 1, n, m, D) :
                       row \in {PathRow(prev, <<>>, i, n, m, D)}} : TRUE

\* The number of monotone lattice paths from (0, 0) to (n, m) that stay
\* inside.
PathsInside(n, m, D) == PathRows(<<>>, 0, n, m, D)

\* stats.ks_2samp(data1, data2) on two non-empty samples: the two-sided
\* statistic sup|F1 - F2| and its exact p-value P(D >= d) (method 'auto' is
\* 'exact' up to 10000 observations), both as exact rationals.
ks_2samp(data1, data2) ==
    LET n == Len(data1)
        m == Len(data2)
        pts == {data1[i] : i \in 1..n} \cup {data2[i] : i \in 1..m}
        D == CHOOSE d \in {Abs(CountLE(data1, v) * m - CountLE(data2, v) * n) : v \in pts} :
                 \A v \in pts : Abs(CountLE(data1, v) * m - CountLE(data2, v) * n) <= d
        all == Choose(n + m, n)
    IN [statistic |-> Rat(D, n * m),
        p_value |-> IF D = 0 THEN Rat(1, 1)
                    ELSE Rat(all - PathsInside(n, m, D), all)]

\* ks_2samp when a sample is empty and the library answers with NaN
ks_2samp_nan == [statistic |-> RNaN, p_value |-> RNaN]

RECURSIVE Log2Floor(_)
Log2Floor(k) == IF k < 2 THEN 0 ELSE 1 + Log2Floor(k \div 2)

RECURSIVE Pow2(_)
Pow2(e) == IF e = 0 THEN 1 ELSE 2 * Pow2(e - 1)

\* np.log of the integer k >= 1, in units of 1/Scale:
\* k = m * 2^e with 1 <= m < 2, ln k = e ln 2 + 2 atanh((m - 1)/(m + 1)).
LnFix(k) ==
    LET e == Log2Floor(k)
        p == Pow2(e)
        z == ((k - p) * Scale) \div (k + p)
        z2 == (z * z) \div Scale
        t3 == (z * z2) \div Scale
        t5 == (t3 * z2) \div Scale
        t7 == (t5 * z2) \div Scale
        t9 == (t7 * z2) \div Scale
    IN e * Ln2 + 2 * (z + t3 \div 3 + t5 \div 5 + t7 \div 7 + t9 \div 9)

\* np.histogram(ref_data, bins=bins)[1]: the range the Bins equal-width bins
\* divide, in half units ([lo, hi] = [lo2/2, hi2/2]).  An empty sample gets
\* the range (0, 1), a sample of one value v the range (v - 0.5, v + 0.5).
bin_edges(ref_data) ==
    IF ref_data = <<>> THEN [lo2 |-> 0, hi2 |-> 2]
    ELSE LET vals == {ref_data[i] : i \in 1..Len(ref_data)}
             mn == CHOOSE v \in vals : \A w \in vals : v <= w
             mx == CHOOSE v \in vals : \A w \in vals : v >= w
         IN IF mn = mx THEN [lo2 |-> 2 * mn - 1, hi2 |-> 2 * mx + 1]
            ELSE [lo2 |-> 2 * mn, hi2 |-> 2 * mx]

\* the bin (1..Bins) of value v, 0 when v lies outside the range; every bin
\* is half open except the last, which holds its right edge
BinIndex(v, edges) ==
    IF 2 * v < edges.lo2 \/ 2 * v > edges.hi2 THEN 0
    ELSE IF 2 * v = edges.hi2 THEN Bins
    ELSE ((2 * v - edges.lo2) * Bins) \div (edges.hi2 - edges.lo2) + 1

\* np.histogram(data, bins=bin_edges)[0]
histogram(data, edges) ==
    [b \in 1..Bins |-> Cardinality({i \in 1..Len(data) : BinIndex(data[i], edges) = b})]

\* counts / len(data): dividing by the length 0 gives NaN in every bin
percents(counts, n) ==
    [b \in 1..Bins |-> IF n = 0 THEN NaN ELSE Num((counts[b] * Scale) \div n)]

\* np.where(percents == 0, 0.0001, percents)
floor_zero(pct) ==
    [b \in 1..Bins |-> IF ~pct[b].nan /\ pct[b].v = 0 THEN Num(1) ELSE pct[b]]

\* (curr - ref) * np.log(curr / ref) for one bin, in units of 1/Scale
psi_term(c, r) ==
    ((c - r) * (LnFix(c) - LnFix(r))) \div Scale

\* np.sum((curr_percents - ref_percents) * np.log(curr_percents / ref_percents))
psi_sum(curr_percents, ref_percents) ==
    IF \E b \in 1..Bins : curr_percents[b].nan \/ ref_percents[b].nan THEN NaN
    ELSE Num(SumSeq([b \in 1..Bins |-> psi_term(curr_percents[b].v, ref_percents[b].v)]))

\* lines 128-147: the PSI of one column
psi_of(ref_col, curr_col) ==
    LET ref_data == dropna(ref_col)
        curr_data == dropna(curr_col)
        edges == bin_edges(ref_data)
        ref_counts == histogram(ref_data, edges)
        curr_counts == histogram(curr_data, edges)
        ref_percents == floor_zero(percents(ref_counts, Len(ref_data)))
        curr_percents == floor_zero(percents(curr_counts, Len(curr_data)))
    IN psi_sum(curr_percents, ref_percents)

\* a plausible slip: the lower band is tested first and hides the upper one
drift_level_of_moderate_first(psi) ==
    IF FixGe(psi, PsiModerate) THEN "moderate"
    ELSE IF FixGe(psi, PsiSignificant) THEN "significant"
    ELSE "none"

\* lines 150-158: the drift level of a PSI value
drift_level_of(psi) ==
    IF FixGe(psi, PsiSignificant) THEN "significant"
    ELSE IF FixGe(psi, PsiModerate) THEN "moderate"
    ELSE "none"

\* a plausible slip: a moderate change is not flagged
psi_is_drifted_significant_only(psi) ==
    IF FixGe(psi, PsiSignificant) THEN TRUE
    ELSE IF FixGe(psi, PsiModerate) THEN FALSE
    ELSE FALSE

\* lines 150-158: the is_drifted flag of a PSI value
psi_is_drifted(psi) ==
    IF FixGe(psi, PsiSignificant) THEN TRUE
    ELSE IF FixGe(psi, PsiModerate) THEN TRUE
    ELSE FALSE

\* ------------------------------------------------------ _compute_statistics
RECURSIVE IsqrtIn(_, _, _)
IsqrtIn(x, lo, hi) ==
    IF lo >= hi THEN lo
    ELSE LET mid == (lo + hi + 1) \div 2
         IN IF mid * mid <= x THEN IsqrtIn(x, mid, hi) ELSE IsqrtIn(x, lo, mid - 1)

\* Series.quantile(k/4) with linear interpolation over the sorted non-missing
\* values, in units of 1/Scale; NaN for an empty sample
quantile4(sorted, k) ==
    IF sorted = <<>> THEN NaN
    ELSE LET pos4 == (Len(sorted) - 1) * k
             i == pos4 \div 4 + 1
             f == pos4 % 4
             nxt == IF i < Len(sorted) THEN sorted[i + 1] ELSE sorted[i]
         IN Num(sorted[i] * Scale + ((nxt - sorted[i]) * f * Scale) \div 4)

\* lines 35-43: the statistics of one column.  Missing cells are skipped;
\* mean, min, max, median and the quartiles of no value are NaN, and so is
\* the sample standard deviation (ddof = 1) of fewer than two values.
column_stats(values) ==
    LET d == SortSeq(dropna(values), LAMBDA a, b : a < b)
        n == Len(d)
        sum == SumSeq(d)
        sq == SumSeq([i \in 1..n |-> d[i] * d[i]])
    IN [mean |-> IF n = 0 THEN NaN ELSE Num((sum * Scale) \div n),
        std |-> IF n < 2 THEN NaN
                ELSE Num(100 * IsqrtIn(((n * sq - sum * sum) * 10000) \div (n * (n - 1)),
                                       0, 100 * (d[n] - d[1] + 1))),
        min |-> IF n = 0 THEN NaN ELSE Num(d[1] * Scale),
        max |-> IF n = 0 THEN NaN ELSE Num(d[n] * Scale),
        median |-> quantile4(d, 2),
        q25 |-> quantile4(d, 1),
        q75 |-> quantile4(d, 3)]

\* lines 31-44: a mapping from every numeric column to its statistics
_compute_statistics(data) ==
    LET cols == NumericColumns(data)
    IN [c \in {cols[i] : i \in 1..Len(cols)} |-> column_stats(Column(data, c))]

\* ------------------------------------------------------------------ logging
LogWarning(msg, col) == [level |-> "warning", msg |-> msg, col |-> col]
LogInfo(msg) == [level |-> "info", msg |-> msg, col |-> ""]

\* ------------------------------------------------------ detect_drift_ks_test
\* lines 59-60 and 118-119: the columns checked
ColumnsToCheck(reference, columns) ==
    IF columns.given THEN columns.names ELSE NumericColumns(reference)

\* a plausible slip: p_value <= threshold
ks_entry_le(res, thr) ==
    [statistic |-> res.statistic,
     p_value |-> res.p_value,
     is_drifted |-> ~res.p_value.nan /\ res.p_value.num * thr.den <= thr.num * res.p_value.den,
     threshold |-> thr]

\* a plausible slip: the p-value and the threshold change places
ks_entry_swapped(res, thr) ==
    [statistic |-> res.statistic,
     p_value |-> thr,
     is_drifted |-> RatLt(res.p_value, thr),
     threshold |-> res.p_value]

\* lines 75-82: the details entry of one column
ks_entry(res, thr) ==
    [statistic |-> res.statistic,
     p_value |-> res.p_value,
     is_drifted |-> RatLt(res.p_value, thr),
     threshold |-> thr]

LoopStart == [details |-> <<>>, drifted |-> <<>>, log |-> <<>>, error |-> ""]

\* lines 65-88: the loop over the columns.  nanOnEmpty tells what the
\* installed scipy does with an empty sample: answer NaN (with a
\* SmallSampleWarning of the warnings module, which is no log record) or
\* raise ValueError.  An exception ends the loop.
RECURSIVE ks_loop(_, _, _, _, _, _)
ks_loop(cols, reference, current, thr, nanOnEmpty, acc) ==
    IF cols = <<>> \/ acc.error # "" THEN acc
    ELSE LET col == Head(cols)
             rest == Tail(cols)
         IN IF ~HasColumn(current, col)
            THEN ks_loop(rest, reference, current, thr, nanOnEmpty,
                    [acc EXCEPT !.log = Append(@, LogWarning("column_not_found", col))])
            ELSE IF ~HasColumn(reference, col)
            THEN [acc EXCEPT !.error = "KeyError"]
            ELSE LET a == dropna(Column(reference, col))
                     b == dropna(Column(current, col))
                     empty == a = <<>> \/ b = <<>>
                 IN IF empty /\ ~nanOnEmpty
                    THEN [acc EXCEPT !.error = "ValueError"]
                    ELSE LET e == ks_entry(IF empty THEN ks_2samp_nan ELSE ks_2samp(a, b), thr)
                         IN ks_loop(rest, reference, current, thr, nanOnEmpty,
                              [acc EXCEPT
                                 !.details = (col :> e) @@ @,
                                 !.drifted = IF e.is_drifted THEN Append(@, col) ELSE @,
                                 !.log = IF e.is_drifted
                                         THEN Append(@, LogWarning("drift_detected", col))
                                         ELSE @])

\* lines 90-98 and 170-178: the summary; len(columns) = 0 divides by zero
make_summary(cols, acc) ==
    IF acc.error # "" THEN [error |-> acc.error, log |-> acc.log, summary |-> <<>>]
    ELSE IF Len(cols) = 0
    THEN [error |-> "ZeroDivisionError", log |-> acc.log, summary |-> <<>>]
    ELSE [error |-> "", log |-> acc.log,
          summary |-> <<[total_features |-> Len(cols),
                         drifted_features |-> Len(acc.drifted),
                         drift_percentage |-> Rat(Len(acc.drifted) * 100, Len(cols)),
                         drifted_feature_names |-> acc.drifted,
                         details |-> acc.details]>>]

detect_drift_ks_test(reference, thr, current, columns, nanOnEmpty) ==
    LET cols == ColumnsToCheck(reference, columns)
    IN make_summary(cols, ks_loop(cols, reference, current, thr, nanOnEmpty, LoopStart))

\* --------------------------------------------------------- detect_drift_psi
\* lines 160-164: the details entry of one column
psi_entry(psi) ==
    [psi |-> psi, drift_level |-> drift_level_of(psi), is_drifted |-> psi_is_drifted(psi)]

\* lines 124-168: the loop over the columns
RECURSIVE psi_loop(_, _, _, _)
psi_loop(cols, reference, current, acc) ==
    IF cols = <<>> \/ acc.error # "" THEN acc
    ELSE LET col == Head(cols)
             rest == Tail(cols)
         IN IF ~HasColumn(current, col)
            THEN psi_loop(rest, reference, current, acc)
            ELSE IF ~HasColumn(reference, col)
            THEN [acc EXCEPT !.error = "KeyError"]
            ELSE LET e == psi_entry(psi_of(Column(reference, col), Column(current, col)))
                 IN psi_loop(rest, reference, current,
                      [acc EXCEPT
                         !.details = (col :> e) @@ @,
                         !.drifted = IF e.is_drifted THEN Append(@, col) ELSE @,
                         !.log = IF e.is_drifted
                                 THEN Append(@, LogWarning("drift_detected", col))
                                 ELSE @])

detect_drift_psi(reference, current, columns) ==
    LET cols == ColumnsToCheck(reference, columns)
    IN make_summary(cols, psi_loop(cols, reference, current, LoopStart))

\* ---------------------------------------------------- generate_drift_report
\* a plausible slip: both tests must agree
overall_drifted_both(ks, psi) ==
    ks.drifted_features > 0 /\ psi.drifted_features > 0

\* lines 212-214
overall_drifted_of(ks, psi) ==
    ks.drifted_features > 0 \/ psi.drifted_features > 0

\* a plausible slip: the warning is logged on both branches
overall_log_always(overall_drifted) == <<LogWarning("drift_overall", "")>>

\* lines 217-220: the closing log record
overall_log(overall_drifted) ==
    IF overall_drifted THEN <<LogWarning("drift_overall", "")>> ELSE <<LogInfo("no_drift")>>

\* lines 190-222.  An exception of either test leaves no report.
generate_drift_report(reference, thr, ref_stats, current, now, nanOnEmpty) ==
    LET none == [given |-> FALSE, names |-> <<>>]
        start == <<LogInfo("generating")>>
        ks == detect_drift_ks_test(reference, thr, current, none, nanOnEmpty)
        psi == detect_drift_psi(reference, current, none)
    IN IF ks.error # ""
       THEN [error |-> ks.error, log |-> start \o ks.log, report |-> <<>>]
       ELSE IF psi.error # ""
       THEN [error |-> psi.error, log |-> start \o ks.log \o psi.log, report |-> <<>>]
       ELSE LET ks_results == ks.summary[1]
                psi_results == psi.summary[1]
                overall_drifted == overall_drifted_of(ks_results, psi_results)
            IN [error |-> "",
                log |-> start \o ks.log \o psi.log \o overall_log(overall_drifted),
                report |-> <<[timestamp |-> now,
                              reference_samples |-> NumRows(reference),
                              current_samples |-> NumRows(current),
                              ks_test |-> ks_results,
                              psi_test |-> psi_results,
                              statistics_comparison |->
                                  [reference |-> ref_stats,
                                   current |-> _compute_statistics(current)],
                              overall_drift_detected |-> overall_drifted]>>]

\* ------------------------------------------------- the report as Python data
\* A Python value is a node [k, v]: k is its type and v its content.  A dict
\* is the sequence of its items [key, val] in insertion order and a list the
\* sequence of its elements; the other nodes are leaves.  A float leaf holds
\* a number of this model ([nan, v] or [nan, num, den]), an int leaf an
\* integer.
Dict(items) == [k |-> "dict", v |-> items]
List(items) == [k |-> "list", v |-> items]
Item(key, val) == [key |-> key, val |-> val]
PyStr(s) == [k |-> "str", v |-> s]
PyInt(n) == [k |-> "int", v |-> n]
PyFloat(x) == [k |-> "float", v |-> x]
PyBool(b) == [k |-> "bool", v |-> b]
NpInt64(n) == [k |-> "np.int64", v |-> n]
NpFloat64(x) == [k |-> "np.float64", v |-> x]
NpBool(b) == [k |-> "np.bool_", v |-> b]

NumpyIntegers == {"np.int64"}
NumpyFloatings == {"np.float64"}

\* the keys of a mapping of the model in the order the loop inserted them
KeysInOrder(cols, d) == SelectSeq(cols, LAMBDA c : c \in DOMAIN d)

\* lines 77-82: statistic and p_value go through float(), the comparison of
\* a numpy float with the threshold is a numpy bool
TypedKsEntry(e) ==
    Dict(<<Item("statistic", PyFloat(e.statistic)),
           Item("p_value", PyFloat(e.p_value)),
           Item("is_drifted", NpBool(e.is_drifted)),
           Item("threshold", PyFloat(e.threshold))>>)

\* lines 150-164: psi goes through float(), is_drifted is True or False
TypedPsiEntry(e) ==
    Dict(<<Item("psi", PyFloat(e.psi)),
           Item("drift_level", PyStr(e.drift_level)),
           Item("is_drifted", PyBool(e.is_drifted))>>)

\* lines 90-96 and 170-176: details is the typed mapping of the entries
TypedSummary(s, details) ==
    Dict(<<Item("total_features", PyInt(s.total_features)),
           Item("drifted_features", PyInt(s.drifted_features)),
           Item("drift_percentage", PyFloat(s.drift_percentage)),
           Item("drifted_feature_names",
                List([i \in 1..Len(s.drifted_feature_names) |->
                         PyStr(s.drifted_feature_names[i])])),
           Item("details", details)>>)

TypedKsSummary(s, cols) ==
    LET keys == KeysInOrder(cols, s.details)
    IN TypedSummary(s, Dict([i \in 1..Len(keys) |->
                                Item(keys[i], TypedKsEntry(s.details[keys[i]]))]))

TypedPsiSummary(s, cols) ==
    LET keys == KeysInOrder(cols, s.details)
    IN TypedSummary(s, Dict([i \in 1..Len(keys) |->
                                Item(keys[i], TypedPsiEntry(s.details[keys[i]]))]))

\* a column of integers without a missing cell is an int64 column, whose
\* min() and max() are numpy integers; a missing cell makes the column
\* float64, and the minimum of no value is the float NaN
IntDtype(values) == values # <<>> /\ \A i \in 1..Len(values) : values[i] # Null
TypedExtreme(x, values) ==
    IF IntDtype(values) /\ ~x.nan THEN NpInt64(x.v \div Scale) ELSE NpFloat64(x)

\* lines 35-43: the reductions of a pandas column return numpy scalars
TypedColumnStats(st, values) ==
    Dict(<<Item("mean", NpFloat64(st.mean)),
           Item("std", NpFloat64(st.std)),
           Item("min", TypedExtreme(st.min, values)),
           Item("max", TypedExtreme(st.max, values)),
           Item("median", NpFloat64(st.median)),
           Item("q25", NpFloat64(st.q25)),
           Item("q75", NpFloat64(st.q75))>>)

\* lines 31-44: the statistics of the dataset data
TypedStatistics(stats, data) ==
    LET keys == KeysInOrder(NumericColumns(data), stats)
    IN Dict([i \in 1..Len(keys) |->
                Item(keys[i], TypedColumnStats(stats[keys[i]], Column(data, keys[i])))])

\* lines 199-215: the report r as the Python object generate_drift_report
\* returns, built from the reference dataset ref and the current dataset cur
TypedReport(r, ref, cur) ==
    Dict(<<Item("timestamp", PyStr(ToString(r.timestamp))),
           Item("reference_samples", PyInt(r.reference_samples)),
           Item("current_samples", PyInt(r.current_samples)),
           Item("ks_test", TypedKsSummary(r.ks_test, NumericColumns(ref))),
           Item("psi_test", TypedPsiSummary(r.psi_test, NumericColumns(ref))),
           Item("statistics_comparison",
                Dict(<<Item("reference",
                            TypedStatistics(r.statistics_comparison.reference, ref)),
                       Item("current",
                            TypedStatistics(r.statistics_comparison.current, cur))>>)),
           Item("overall_drift_detected", PyBool(r.overall_drift_detected))>>)

\* -------------------------------------------------------------- save_report
\* float(obj) of a numpy scalar: the integer n becomes the float n.0
float_of(obj) == IF obj.k \in NumpyIntegers THEN Num(obj.v * Scale) ELSE obj.v

\* lines 232-243
RECURSIVE convert_to_json_serializable(_)
convert_to_json_serializable(obj) ==
    IF obj.k = "dict"
    THEN Dict([i \in 1..Len(obj.v) |->
                  Item(obj.v[i].key, convert_to_json_serializable(obj.v[i].val))])
    ELSE IF obj.k = "list"
    THEN List([i \in 1..Len(obj.v) |-> convert_to_json_serializable(obj.v[i])])
    ELSE IF obj.k \in NumpyIntegers \cup NumpyFloatings
    THEN PyFloat(float_of(obj))
    ELSE IF obj.k = "np.bool_"
    THEN PyBool(obj.v)
    ELSE IF obj.k = "np.ndarray"
    THEN List(obj.v)
    ELSE obj

\* what the JSON encoder accepts: dict, list, str, int, float (numpy's
\* float64 is a Python float) and bool; anything else is a TypeError
RECURSIVE Encodable(_)
Encodable(obj) ==
    IF obj.k = "dict" THEN \A i \in 1..Len(obj.v) : Encodable(obj.v[i].val)
    ELSE IF obj.k = "list" THEN \A i \in 1..Len(obj.v) : Encodable(obj.v[i])
    ELSE obj.k \in {"str", "int", "float", "np.float64", "bool"}

\* json.dump(obj, f, indent=2), allow_nan left at its default True: the text
\* written, as the tree of its tokens.  A float that is NaN is written as the
\* bare token NaN.
RECURSIVE json_dump(_)
json_dump(obj) ==
    IF obj.k = "dict"
    THEN [k |-> "object",
          v |-> [i \in 1..Len(obj.v) |-> Item(obj.v[i].key, json_dump(obj.v[i].val))]]
    ELSE IF obj.k = "list"
    THEN [k |-> "array", v |-> [i \in 1..Len(obj.v) |-> json_dump(obj.v[i])]]
    ELSE IF obj.k = "str" THEN [k |-> "string", v |-> obj.v]
    ELSE IF obj.k = "int" THEN [k |-> "integer", v |-> obj.v]
    ELSE IF obj.k = "bool" THEN [k |-> IF obj.v THEN "true" ELSE "false", v |-> obj.v]
    ELSE IF obj.v.nan THEN [k |-> "NaN", v |-> obj.v]
    ELSE [k |-> "decimal", v |-> obj.v]

\* json.load of such a text: a number with a fraction part is a float, one
\* without is an int, and the token NaN is accepted as the float NaN
RECURSIVE json_load(_)
json_load(text) ==
    IF text.k = "object"
    THEN Dict([i \in 1..Len(text.v) |-> Item(text.v[i].key, json_load(text.v[i].val))])
    ELSE IF text.k = "array"
    THEN List([i \in 1..Len(text.v) |-> json_load(text.v[i])])
    ELSE IF text.k = "string" THEN PyStr(text.v)
    ELSE IF text.k = "integer" THEN PyInt(text.v)
    ELSE IF text.k \in {"true", "false"} THEN PyBool(text.k = "true")
    ELSE PyFloat(text.v)

\* the file system as save_report meets it: the parent directory of
\* output_path ("missing", a "dir", a "readonly_dir", or a regular "file" in
\* its place), whether the directory above lets it be created, the target
\* ("missing", a "file", a "readonly_file" or a "dir" in its place) and the
\* text of the target file
OSErrors == {"PermissionError", "FileExistsError", "IsADirectoryError",
             "FileNotFoundError", "NotADirectoryError"}
OldText == [k |-> "string", v |-> "old"]
EmptyText == [k |-> "empty", v |-> ""]
PartialText == [k |-> "partial", v |-> ""]

\* a plausible slip: the parent directory is not created
mkdir_skipped(fs) == [error |-> "", fs |-> fs]

\* line 229: output_path.parent.mkdir(parents=True, exist_ok=True)
mkdir_parents(fs) ==
    IF fs.parent \in {"dir", "readonly_dir"} THEN [error |-> "", fs |-> fs]
    ELSE IF fs.parent = "file" THEN [error |-> "FileExistsError", fs |-> fs]
    ELSE IF fs.above_writable THEN [error |-> "", fs |-> [fs EXCEPT !.parent = "dir"]]
    ELSE [error |-> "PermissionError", fs |-> fs]

\* line 247: open(output_path, "w") creates the file or empties it
open_w(fs) ==
    IF fs.parent = "missing" THEN [error |-> "FileNotFoundError", fs |-> fs]
    ELSE IF fs.parent = "file" THEN [error |-> "NotADirectoryError", fs |-> fs]
    ELSE IF fs.target = "dir" THEN [error |-> "IsADirectoryError", fs |-> fs]
    ELSE IF fs.target = "readonly_file" THEN [error |-> "PermissionError", fs |-> fs]
    ELSE IF fs.target = "missing" /\ fs.parent = "readonly_dir"
    THEN [error |-> "PermissionError", fs |-> fs]
    ELSE [error |-> "", fs |-> [fs EXCEPT !.target = "file", !.text = EmptyText]]

\* a plausible slip: json.dump(report, f) of the unconverted report
serializable_report_raw(report) == report

\* line 245
serializable_report(report) == convert_to_json_serializable(report)

\* lines 224-250: save_report(report, output_path) on the file system fs.
\* The encoder writes as it goes, so a TypeError leaves a partial text.
save_report(report, fs) ==
    LET made == mkdir_parents(fs)
        opened == open_w(made.fs)
        obj == serializable_report(report)
    IN IF made.error # "" THEN [error |-> made.error, fs |-> made.fs, log |-> <<>>]
       ELSE IF opened.error # ""
       THEN [error |-> opened.error, fs |-> opened.fs, log |-> <<>>]
       ELSE IF ~Encodable(obj)
       THEN [error |-> "TypeError", fs |-> [opened.fs EXCEPT !.text = PartialText],
             log |-> <<>>]
       ELSE [error |-> "", fs |-> [opened.fs EXCEPT !.text = json_dump(obj)],
             log |-> <<LogInfo("saved")>>]

\* -------------------------------------------------------------------- inputs
DefaultThreshold == Rat(1, 20)
Thresholds == {DefaultThreshold, Rat(1, 2)}

NumericColumn(name, values) == [name |-> name, numeric |-> TRUE, values |-> values]
ObjectColumn(name, rows) ==
    [name |-> name, numeric |-> FALSE, values |-> [i \in 1..rows |-> "a"]]

\* The operations read a column through dropna, sorting, counting and sums
\* only, so the order of its rows is immaterial: columns are enumerated in
\* non-decreasing order (Null first).
ColumnsOfLen(n) == {s \in [1..n -> Cells] : \A i \in 1..(n - 1) : s[i] <= s[i + 1]}
ValueColumns == UNION {ColumnsOfLen(n) : n \in 0..MaxLen}

\* value family: one numeric column x, any content, default column set
ValueInputs ==
    {[reference |-> <<NumericColumn("x", a)>>, current |-> <<NumericColumn("x", b)>>,
      threshold |-> t, columns |-> [given |-> FALSE, names |-> <<>>]] :
        a \in ValueColumns, b \in ValueColumns, t \in Thresholds}

\* structure family: columns x and y present or not with a constant content,
\* an optional non-numeric column s in the reference, any column argument
ConstColumns == {[i \in 1..StructRows |-> v] : v \in {0, MaxVal, Null}}
MaybeColumn(name) == {<<>>} \cup {<<NumericColumn(name, c)>> : c \in ConstColumns}
StructDatasets(objs) ==
    {x \o y \o o : x \in MaybeColumn("x"), y \in MaybeColumn("y"), o \in objs}
ColumnArgs ==
    {[given |-> FALSE, names |-> <<>>]} \cup
    {[given |-> TRUE, names |-> n] :
        n \in {<<>>, <<"x">>, <<"x", "y">>, <<"y", "x">>, <<"x", "x">>}}
StructInputs ==
    {[reference |-> r, current |-> c, threshold |-> t, columns |-> a] :
        r \in StructDatasets({<<>>, <<ObjectColumn("s", StructRows)>>}),
        c \in StructDatasets({<<>>}), t \in Thresholds, a \in ColumnArgs}

Inputs == ValueInputs \cup StructInputs

\* ------------------------------------------------- monitor_drift_from_files
\* pd.read_csv(path) of a file, <<>> when there is none or <<dataset>>: a
\* file without columns is an EmptyDataError, and the columns of a file
\* without rows are loaded as object columns
read_csv(file) ==
    IF file = <<>> THEN [error |-> "FileNotFoundError", data |-> <<>>]
    ELSE IF file[1] = <<>> THEN [error |-> "EmptyDataError", data |-> <<>>]
    ELSE IF NumRows(file[1]) = 0
    THEN [error |-> "",
          data |-> [i \in 1..Len(file[1]) |-> [file[1][i] EXCEPT !.numeric = FALSE]]]
    ELSE [error |-> "", data |-> file[1]]

\* lines 253-280.  The signature has the two input paths and the output path
\* only: a call that also passes a threshold is a TypeError before anything
\* is read.  An exception leaves the steps after it undone and nothing is
\* returned.
monitor_drift_from_files(fs, with_threshold, now, nanOnEmpty) ==
    LET raised(e, l) == [error |-> e, log |-> l, report |-> <<>>, fs |-> fs]
        reference == read_csv(fs.reference_csv)
        current == read_csv(fs.current_csv)
        saved(r) ==
            IF r.error # "" THEN raised(r.error, r.log)
            ELSE LET s == save_report(TypedReport(r.report[1], reference.data,
                                                  current.data), fs)
                 IN [error |-> s.error, log |-> r.log \o s.log,
                     report |-> IF s.error = "" THEN r.report ELSE <<>>,
                     fs |-> s.fs]
    IN IF with_threshold THEN raised("TypeError", <<>>)
       ELSE IF reference.error # "" THEN raised(reference.error, <<>>)
       ELSE IF current.error # "" THEN raised(current.error, <<>>)
       \* the report is generated once, then saved
       ELSE CHOOSE out \in
                {saved(r) : r \in {generate_drift_report(
                                      reference.data, DefaultThreshold,
                                      _compute_statistics(reference.data),
                                      current.data, now, nanOnEmpty)}} : TRUE

\* ------------------------------------------------- inputs of save and monitor
SaveLen == 2         \* rows of a reference dataset that is saved

\* the file system before the call: every state of the output location, and
\* the two input files present or not
Locations ==
    {[parent |-> "missing", above_writable |-> w, target |-> "missing"] : w \in BOOLEAN}
    \cup {[parent |-> "file", above_writable |-> TRUE, target |-> "missing"]}
    \cup {[parent |-> p, above_writable |-> TRUE, target |-> t] :
            p \in {"dir", "readonly_dir"},
            t \in {"missing", "file", "readonly_file", "dir"}}
FileSystem(loc, reference_csv, current_csv) ==
    [parent |-> loc.parent, above_writable |-> loc.above_writable, target |-> loc.target,
     text |-> IF loc.target \in {"file", "readonly_file"} THEN OldText ELSE EmptyText,
     reference_csv |-> reference_csv, current_csv |-> current_csv]
FreshLocation == [parent |-> "missing", above_writable |-> TRUE, target |-> "missing"]
NoFiles == FileSystem(FreshLocation, <<>>, <<>>)

\* report family: any reference column x of up to SaveLen rows against a few
\* current columns, saved to a fresh location
SaveCurrents == {<<0>>, <<Null>>, <<0, MaxVal>>, <<MaxVal, MaxVal>>}
ReportInputs ==
    {[reference |-> <<NumericColumn("x", a)>>, current |-> <<NumericColumn("x", b)>>,
      threshold |-> t, location |-> FreshLocation, files |-> <<TRUE, TRUE>>] :
        a \in UNION {ColumnsOfLen(n) : n \in 0..SaveLen}, b \in SaveCurrents,
        t \in Thresholds}

\* location family: one pair of datasets, any output location, the input
\* files present or not
LocationInputs ==
    {[reference |-> <<NumericColumn("x", <<0, 0>>)>>,
      current |-> <<NumericColumn("x", <<0, MaxVal>>)>>,
      threshold |-> DefaultThreshold, location |-> l, files |-> f] :
        l \in Locations, f \in {<<TRUE, TRUE>>, <<FALSE, TRUE>>, <<TRUE, FALSE>>}}

\* a dataset without columns is one more content of the input files
SaveInputs ==
    ReportInputs \cup LocationInputs \cup
    {[reference |-> r, current |-> <<NumericColumn("x", <<0>>)>>,
      threshold |-> DefaultThreshold, location |-> FreshLocation, files |-> <<TRUE, TRUE>>] :
        r \in {<<>>, <<ObjectColumn("s", 1)>>}}

\* inputs of the life of one detector: a caller that calls it again and
\* again and changes objects it shares with it
MaxCalls == 2        \* calls the caller goes on to after the first
LifeColumns == {<<0, 0>>, <<MaxVal>>}
LifeDatasets == {<<NumericColumn("x", c)>> : c \in LifeColumns}

\* --------------------------------------------------------------------- state
VARIABLES
    reference_data,   \* self.reference_data
    threshold,        \* self.threshold
    reference_stats,  \* self.reference_stats
    current_data,     \* the current_data argument of the call
    columns,          \* the columns argument of the call
    pc,               \* "constructed", then "done" once the call has ended
    op,               \* the operation called: "ks", "psi", "report", ...
    error,            \* the exception the call raised, "" when it returned
    ks_results,       \* <<summary>> returned by detect_drift_ks_test
    psi_results,      \* <<summary>> returned by detect_drift_psi
    report,           \* the reports returned so far, in order
    log,              \* the records handed to LOGGER, in order
    clock,            \* pd.Timestamp.now()
    fs,               \* the file system
    stats_aliases,    \* the reports whose statistics_comparison.reference is
                      \* the object self.reference_stats
    constructed_with, \* the reference dataset as it was at construction
    calls,            \* the calls the caller has made
    peer,             \* a second detector of the same process
    features_run,     \* a call of build_features
    labels_run,       \* a call of create_risk_labels_balanced
    fed,              \* the run of run_aggregation_visualization.py
    checks,           \* the runs of the drift-check CLI and the files they share
    experiment        \* a call of run_federated_experiment

vars == <<reference_data, threshold, reference_stats, current_data, columns,
          pc, op, error, ks_results, psi_results, report, log, clock,
          fs, stats_aliases, constructed_with, calls,
          peer, features_run, labels_run, fed, checks, experiment>>

detector == <<reference_data, threshold, reference_stats>>
arguments == <<current_data, columns>>

\* the state of the detector and its caller, and the state of the rest
drift == <<detector, arguments, pc, op, error, ks_results, psi_results, report, log,
           clock, fs, stats_aliases, constructed_with, calls>>
elsewhere == <<peer, features_run, labels_run, fed, checks, experiment>>

\* a program that is not running
Idle == [pc |-> "idle"]
NothingElse ==
    /\ peer = Idle
    /\ features_run = Idle
    /\ labels_run = Idle
    /\ fed = Idle
    /\ checks = Idle
    /\ experiment = Idle

\* lines 19-29: the detector constructed from in.reference and in.threshold,
\* and the arguments of the calls to come
Built(in, files) ==
    /\ reference_data = in.reference
    /\ threshold = in.threshold
    /\ reference_stats = _compute_statistics(in.reference)
    /\ current_data = in.current
    /\ columns = in.columns
    /\ pc = "constructed"
    /\ op = ""
    /\ error = ""
    /\ ks_results = <<>>
    /\ psi_results = <<>>
    /\ report = <<>>
    /\ log = <<>>
    /\ clock = 0
    /\ fs = files
    /\ stats_aliases = {}
    /\ constructed_with = in.reference
    /\ calls = 0

\* the detector alone
Constructed(in, files) == Built(in, files) /\ NothingElse

\* no detector: the state of a program that builds none
NoDetector ==
    /\ reference_data = <<>>
    /\ threshold = DefaultThreshold
    /\ reference_stats = <<>>
    /\ current_data = <<>>
    /\ columns = [given |-> FALSE, names |-> <<>>]
    /\ pc = "idle"
    /\ op = ""
    /\ error = ""
    /\ ks_results = <<>>
    /\ psi_results = <<>>
    /\ report = <<>>
    /\ log = <<>>
    /\ clock = 0
    /\ fs = NoFiles
    /\ stats_aliases = {}
    /\ constructed_with = <<>>
    /\ calls = 0

Init == \E in \in Inputs : Constructed(in, NoFiles)

\* what the installed scipy may do with an empty sample: the choice is open
\* only when a checked column has one
EmptySample(cols) ==
    \E i \in 1..Len(cols) :
        /\ HasColumn(reference_data, cols[i])
        /\ HasColumn(current_data, cols[i])
        /\ \/ dropna(Column(reference_data, cols[i])) = <<>>
           \/ dropna(Column(current_data, cols[i])) = <<>>

ScipyChoices(cols) == IF EmptySample(cols) THEN BOOLEAN ELSE {TRUE}

DetectDriftKs ==
    /\ pc = "constructed"
    /\ \E nanOnEmpty \in ScipyChoices(ColumnsToCheck(reference_data, columns)) :
         LET r == detect_drift_ks_test(reference_data, threshold, current_data,
                                       columns, nanOnEmpty)
         IN /\ error' = r.error
            /\ ks_results' = r.summary
            /\ log' = log \o r.log
    /\ pc' = "done"
    /\ op' = "ks"
    /\ UNCHANGED <<detector, arguments, psi_results, report, clock,
                   fs, stats_aliases, constructed_with, calls>>
    /\ UNCHANGED elsewhere

DetectDriftPsi ==
    /\ pc = "constructed"
    /\ LET r == detect_drift_psi(reference_data, current_data, columns)
       IN /\ error' = r.error
          /\ psi_results' = r.summary
          /\ log' = log \o r.log
    /\ pc' = "done"
    /\ op' = "psi"
    /\ UNCHANGED <<detector, arguments, ks_results, report, clock,
                   fs, stats_aliases, constructed_with, calls>>
    /\ UNCHANGED elsewhere

\* a plausible slip: the statistics of the current dataset are kept as the
\* reference of the next report
GenerateDriftReport_rebasing ==
    /\ pc = "constructed"
    /\ ~columns.given
    /\ \E nanOnEmpty \in ScipyChoices(NumericColumns(reference_data)) :
         LET r == generate_drift_report(reference_data, threshold, reference_stats,
                                        current_data, clock, nanOnEmpty)
         IN /\ error' = r.error
            /\ report' = report \o r.report
            /\ stats_aliases' = IF r.report = <<>> THEN stats_aliases
                                ELSE stats_aliases \cup {Len(report) + 1}
            /\ log' = log \o r.log
    /\ pc' = "done"
    /\ op' = "report"
    /\ clock' = clock + 1
    /\ reference_stats' = _compute_statistics(current_data)
    /\ UNCHANGED <<reference_data, threshold, arguments, ks_results, psi_results,
                   fs, constructed_with, calls>>
    /\ UNCHANGED elsewhere

\* generate_drift_report takes no column argument.  The report it returns
\* holds self.reference_stats itself (line 206), not a copy.
GenerateDriftReport ==
    /\ pc = "constructed"
    /\ ~columns.given
    /\ \E nanOnEmpty \in ScipyChoices(NumericColumns(reference_data)) :
         LET r == generate_drift_report(reference_data, threshold, reference_stats,
                                        current_data, clock, nanOnEmpty)
         IN /\ error' = r.error
            /\ report' = report \o r.report
            /\ stats_aliases' = IF r.report = <<>> THEN stats_aliases
                                ELSE stats_aliases \cup {Len(report) + 1}
            /\ log' = log \o r.log
    /\ pc' = "done"
    /\ op' = "report"
    /\ clock' = clock + 1
    /\ UNCHANGED <<detector, arguments, ks_results, psi_results,
                   fs, constructed_with, calls>>
    /\ UNCHANGED elsewhere

Next == DetectDriftKs \/ DetectDriftPsi \/ GenerateDriftReport

Spec == Init /\ [][Next]_vars

\* ------------------------------------------------------- saving and monitoring
\* the caller saves the report it has just been returned
SaveReport ==
    /\ pc = "done"
    /\ op = "report"
    /\ error = ""
    /\ LET r == save_report(TypedReport(report[Len(report)], constructed_with,
                                        current_data), fs)
       IN /\ error' = r.error
          /\ fs' = r.fs
          /\ log' = log \o r.log
    /\ op' = "save"
    /\ UNCHANGED <<detector, arguments, pc, ks_results, psi_results, report, clock,
                   stats_aliases, constructed_with, calls>>
    /\ UNCHANGED elsewhere

\* monitor_drift_from_files on the input files, called with or without a
\* threshold.  Its detector is local: the report it returns holds the
\* reference_stats of that detector.
MonitorDriftFromFiles ==
    /\ pc = "constructed"
    /\ ~columns.given
    /\ \E with_threshold \in BOOLEAN :
       \E nanOnEmpty \in ScipyChoices(NumericColumns(reference_data)) :
         LET r == monitor_drift_from_files(fs, with_threshold, clock, nanOnEmpty)
         IN /\ error' = r.error
            /\ report' = report \o r.report
            /\ fs' = r.fs
            /\ log' = log \o r.log
            /\ op' = IF with_threshold THEN "monitor_with_threshold" ELSE "monitor"
    /\ pc' = "done"
    /\ clock' = clock + 1
    /\ UNCHANGED <<detector, arguments, ks_results, psi_results,
                   stats_aliases, constructed_with, calls>>
    /\ UNCHANGED elsewhere

InitSave ==
    \E in \in SaveInputs :
        Constructed([reference |-> in.reference, current |-> in.current,
                     threshold |-> in.threshold,
                     columns |-> [given |-> FALSE, names |-> <<>>]],
                    FileSystem(in.location,
                               IF in.files[1] THEN <<in.reference>> ELSE <<>>,
                               IF in.files[2] THEN <<in.current>> ELSE <<>>))

NextSave == GenerateDriftReport \/ SaveReport \/ MonitorDriftFromFiles

SpecSave == InitSave /\ [][NextSave]_vars

\* ------------------------------------------------- the life of one detector
\* the caller goes on to its next call
NextCall ==
    /\ pc = "done"
    /\ calls < MaxCalls
    /\ pc' = "constructed"
    /\ op' = ""
    /\ error' = ""
    /\ calls' = calls + 1
    /\ UNCHANGED <<detector, arguments, ks_results, psi_results, report, log, clock,
                   fs, stats_aliases, constructed_with>>
    /\ UNCHANGED elsewhere

\* the caller empties statistics_comparison.reference of a report it holds:
\* report["statistics_comparison"]["reference"].clear().  The mapping is
\* one object, whoever else holds it.
CallerClearsReportStats ==
    /\ pc = "constructed"
    /\ \E i \in 1..Len(report) :
         LET hit == IF i \in stats_aliases THEN stats_aliases ELSE {i}
         IN /\ report[i].statistics_comparison.reference # <<>>
            /\ report' = [j \in 1..Len(report) |->
                             IF j \in hit
                             THEN [report[j] EXCEPT !.statistics_comparison.reference = <<>>]
                             ELSE report[j]]
            /\ reference_stats' = IF i \in stats_aliases THEN <<>> ELSE reference_stats
    /\ UNCHANGED <<reference_data, threshold, arguments, pc, op, error, ks_results,
                   psi_results, log, clock, fs, stats_aliases, constructed_with, calls>>
    /\ UNCHANGED elsewhere

\* the caller changes, in place, the DataFrame it constructed the detector
\* with; self.reference_data is that object (line 27)
CallerChangesReference ==
    /\ pc = "constructed"
    /\ \E d \in LifeDatasets :
         /\ d # reference_data
         /\ reference_data' = d
    /\ UNCHANGED <<threshold, reference_stats, arguments, pc, op, error, ks_results,
                   psi_results, report, log, clock, fs, stats_aliases,
                   constructed_with, calls>>
    /\ UNCHANGED elsewhere

InitLife ==
    \E r \in LifeDatasets, c \in LifeDatasets :
        Constructed([reference |-> r, current |-> c, threshold |-> DefaultThreshold,
                     columns |-> [given |-> FALSE, names |-> <<>>]], NoFiles)

NextLife ==
    \/ DetectDriftKs \/ DetectDriftPsi \/ GenerateDriftReport \/ SaveReport
    \/ NextCall \/ CallerClearsReportStats \/ CallerChangesReference

SpecLife == InitLife /\ [][NextLife]_vars

\* ----------------------------------------------------------------- claims
Done == pc = "done"
Checked == ColumnsToCheck(reference_data, columns)
CheckedSet == {Checked[i] : i \in 1..Len(Checked)}
KsSummaries ==
    {ks_results[i] : i \in 1..Len(ks_results)} \cup {report[i].ks_test : i \in 1..Len(report)}
PsiSummaries ==
    {psi_results[i] : i \in 1..Len(psi_results)} \cup {report[i].psi_test : i \in 1..Len(report)}
Summaries == KsSummaries \cup PsiSummaries
KsEntries == UNION {{s.details[c] : c \in DOMAIN s.details} : s \in KsSummaries}
PsiEntries == UNION {{s.details[c] : c \in DOMAIN s.details} : s \in PsiSummaries}
InBoth(c) == HasColumn(reference_data, c) /\ HasColumn(current_data, c)
AbsentFromCurrent(c) == ~HasColumn(current_data, c)
NoDuplicates(seq) == \A i, j \in 1..Len(seq) : seq[i] = seq[j] => i = j
Logged(msg, c) == \E i \in 1..Len(log) : log[i] = LogWarning(msg, c)

\* a call in which only the absence of a column from the current dataset
\* could go wrong
OnlyAbsenceCanFail ==
    /\ Checked # <<>>
    /\ \A c \in CheckedSet : HasColumn(reference_data, c)
    /\ ~EmptySample(Checked)
\* the checked columns of which a sample is empty once missing values are
\* dropped
EmptyColumns ==
    {c \in CheckedSet :
        /\ InBoth(c)
        /\ \/ dropna(Column(reference_data, c)) = <<>>
           \/ dropna(Column(current_data, c)) = <<>>}

\* C1: in every report returned by generate_drift_report,
\* overall_drift_detected is true exactly when the KS summary or the PSI
\* summary counts at least one drifted feature.
C1_OverallIffAnyDrift ==
    \A i \in 1..Len(report) :
        report[i].overall_drift_detected
            <=> (report[i].ks_test.drifted_features > 0
                 \/ report[i].psi_test.drifted_features > 0)

\* a report in which PSI alone found drift
C1_Witness ==
    /\ report # <<>>
    /\ report[1].overall_drift_detected
    /\ report[1].ks_test.drifted_features = 0
    /\ report[1].psi_test.drifted_features > 0

\* C2: in every KS and PSI summary total_features counts the tested columns
\* only, so it equals the number of details entries (stated for column lists
\* that name no column twice).
C2_TotalCountsTestedOnly ==
    NoDuplicates(Checked) =>
        \A s \in Summaries : s.total_features = Cardinality(DOMAIN s.details)

\* C3: drift_percentage is drifted_features / total_features * 100, and a
\* call that checks no column returns a summary with drift_percentage 0
\* instead of failing.
C3_PercentageDefined ==
    /\ \A s \in Summaries :
          s.drift_percentage.num * s.total_features
              = s.drifted_features * 100 * s.drift_percentage.den
    /\ (Done /\ op \in {"ks", "psi"} /\ Checked = <<>>) =>
          /\ error = ""
          /\ \A s \in Summaries : s.total_features = 0 /\ s.drift_percentage.num = 0

\* C4: every PSI entry has exactly one of the three levels, psi >= 0.2 gives
\* significant, 0.1 <= psi < 0.2 gives moderate, psi < 0.1 gives none, and
\* is_drifted holds exactly for moderate and significant.
C4_PsiBands ==
    \A e \in PsiEntries :
        /\ e.drift_level \in {"none", "moderate", "significant"}
        /\ (~e.psi.nan /\ e.psi.v >= PsiSignificant) => e.drift_level = "significant"
        /\ (~e.psi.nan /\ e.psi.v >= PsiModerate /\ e.psi.v < PsiSignificant)
              => e.drift_level = "moderate"
        /\ (~e.psi.nan /\ e.psi.v < PsiModerate) => e.drift_level = "none"
        /\ e.is_drifted <=> e.drift_level \in {"moderate", "significant"}

\* a column with a moderate change, which is flagged
C4_Witness ==
    \E e \in PsiEntries : e.drift_level = "moderate" /\ e.is_drifted

\* C5: every KS entry carries the detector's threshold, and is_drifted holds
\* exactly when p_value < threshold, strictly.
C5_KsStrictThreshold ==
    \A e \in KsEntries :
        /\ e.threshold = threshold
        /\ e.is_drifted <=>
              (~e.p_value.nan
               /\ e.p_value.num * threshold.den < threshold.num * e.p_value.den)

\* a column whose p-value equals the threshold: not drifted
C5_Witness ==
    \E e \in KsEntries :
        /\ ~e.p_value.nan
        /\ e.p_value.num * threshold.den = threshold.num * e.p_value.den
        /\ ~e.is_drifted

\* C6: the psi of every tested column is a number >= 0, also when a sample
\* is empty after dropping the missing values.
C6_PsiNonNegative ==
    \A e \in PsiEntries : ~e.psi.nan /\ e.psi.v >= 0

\* C7: a checked column that is absent from the current dataset is skipped
\* with a logged warning and no error, by both tests, and the other columns
\* are tested (stated for calls in which nothing else can fail).
C7_AbsentColumnWarned ==
    (Done /\ op \in {"ks", "psi"} /\ OnlyAbsenceCanFail) =>
        /\ error = ""
        /\ \A c \in CheckedSet : AbsentFromCurrent(c) => Logged("column_not_found", c)
        /\ \A s \in Summaries : DOMAIN s.details = {c \in CheckedSet : InBoth(c)}

\* C8: detect_drift_ks_test returns details whose keys are exactly the
\* requested columns present in both datasets; a requested column missing
\* from either one is left out (stated for calls that check a column and meet
\* no empty sample).
C8_KsDetailsKeys ==
    (Done /\ op = "ks" /\ Checked # <<>> /\ ~EmptySample(Checked)) =>
        /\ error = ""
        /\ \A s \in KsSummaries : DOMAIN s.details = {c \in CheckedSet : InBoth(c)}

\* C9: when a checked column has an empty sample, detect_drift_ks_test either
\* raises a categorized computation error or records the column as
\* non-drifted and logs a warning for it.
C9_EmptySampleCategorized ==
    (Done /\ op = "ks" /\ EmptyColumns # {}
          /\ \A c \in CheckedSet : HasColumn(current_data, c) => HasColumn(reference_data, c)) =>
        \/ error = "ComputationError"
        \/ /\ error = ""
           /\ \A s \in KsSummaries : \A c \in EmptyColumns :
                 /\ c \in DOMAIN s.details
                 /\ ~s.details[c].is_drifted
                 /\ \E i \in 1..Len(log) : log[i].level = "warning" /\ log[i].col = c

\* C10: drifted_feature_names lists, in the order the columns are checked and
\* without duplicates, exactly the columns whose entry is drifted, and
\* drifted_features is its length, at most the number of entries.
C10_DriftedNames ==
    \A s \in Summaries :
        /\ NoDuplicates(s.drifted_feature_names)
        /\ {s.drifted_feature_names[i] : i \in 1..Len(s.drifted_feature_names)}
              = {c \in DOMAIN s.details : s.details[c].is_drifted}
        /\ \A i, j \in 1..Len(s.drifted_feature_names) :
              i < j => \E a, b \in 1..Len(Checked) :
                          /\ a < b
                          /\ Checked[a] = s.drifted_feature_names[i]
                          /\ Checked[b] = s.drifted_feature_names[j]
        /\ s.drifted_features = Len(s.drifted_feature_names)
        /\ s.drifted_features <= Cardinality(DOMAIN s.details)

\* ------------------------------------------------- claims about save_report
\* the object save_report is given for report i, and what it hands to the
\* encoder (line 245)
Given(i) == TypedReport(report[i], constructed_with, current_data)
Handed(i) == serializable_report(Given(i))
Saved == op = "save"

RECURSIVE PlainOnly(_)
PlainOnly(obj) ==
    IF obj.k = "dict" THEN \A i \in 1..Len(obj.v) : PlainOnly(obj.v[i].val)
    ELSE IF obj.k = "list" THEN \A i \in 1..Len(obj.v) : PlainOnly(obj.v[i])
    ELSE obj.k \in {"str", "int", "float", "bool"}

\* every integer of obj, plain or numpy, is the same plain integer in conv
RECURSIVE IntegersKept(_, _)
IntegersKept(obj, conv) ==
    IF obj.k = "dict"
    THEN /\ conv.k = "dict"
         /\ Len(conv.v) = Len(obj.v)
         /\ \A i \in 1..Len(obj.v) :
              /\ conv.v[i].key = obj.v[i].key
              /\ IntegersKept(obj.v[i].val, conv.v[i].val)
    ELSE IF obj.k = "list"
    THEN /\ conv.k = "list"
         /\ Len(conv.v) = Len(obj.v)
         /\ \A i \in 1..Len(obj.v) : IntegersKept(obj.v[i], conv.v[i])
    ELSE obj.k \in {"int"} \cup NumpyIntegers => conv.k = "int" /\ conv.v = obj.v

\* the text holds no token that JSON does not have
RECURSIVE ValidJson(_)
ValidJson(text) ==
    IF text.k = "object" THEN \A i \in 1..Len(text.v) : ValidJson(text.v[i].val)
    ELSE IF text.k = "array" THEN \A i \in 1..Len(text.v) : ValidJson(text.v[i])
    ELSE text.k \in {"string", "integer", "decimal", "true", "false", "null"}

RECURSIVE HasNaN(_)
HasNaN(obj) ==
    IF obj.k = "dict" THEN \E i \in 1..Len(obj.v) : HasNaN(obj.v[i].val)
    ELSE IF obj.k = "list" THEN \E i \in 1..Len(obj.v) : HasNaN(obj.v[i])
    ELSE obj.k \in {"float", "np.float64"} /\ obj.v.nan

\* the part of C11 that the code keeps: no numpy value is handed over
NoNumpyHandedOver == Saved => PlainOnly(Handed(Len(report)))

\* C11: what save_report hands to the JSON encoder holds plain mappings,
\* sequences, strings, booleans and numbers only, at every depth, and every
\* integer-valued field of the report is handed over as the same integer.
C11_PlainAndIntegersKept ==
    Saved => /\ PlainOnly(Handed(Len(report)))
             /\ IntegersKept(Given(Len(report)), Handed(Len(report)))

\* C12: when the report holds a NaN, save_report succeeds where the location
\* is writable, and the file written is valid JSON: no bare NaN token.
C12_NaNWrittenAsValidJson ==
    (Saved /\ HasNaN(Given(Len(report)))) =>
        /\ error = "" \/ error \in OSErrors
        /\ error = "" => ValidJson(fs.text)

\* C13: save_report ends with the file written or with an I/O error, and
\* loading the file it wrote and passing the loaded structure through the
\* same serializer gives the loaded structure again, which is written as
\* the same text.
C13_SerializerIdempotent ==
    Saved =>
        /\ error = "" \/ error \in OSErrors
        /\ error = "" =>
             LET loaded == json_load(fs.text)
             IN /\ serializable_report(loaded) = loaded
                /\ Encodable(serializable_report(loaded))
                /\ json_dump(serializable_report(loaded)) = fs.text

\* a saved report with a numpy integer, a numpy bool and a NaN in it
C13_Witness ==
    /\ Saved
    /\ error = ""
    /\ HasNaN(Given(Len(report)))
    /\ ~IntegersKept(Given(Len(report)), Given(Len(report)))
    /\ json_load(fs.text) = Handed(Len(report))

\* the locations save_report can write to
Writable(f) ==
    \/ f.parent = "missing" /\ f.above_writable
    \/ f.parent = "dir" /\ f.target \in {"missing", "file"}
    \/ f.parent = "readonly_dir" /\ f.target = "file"

\* C14: save_report creates the missing parent directory and leaves the new
\* report as the whole text of the target file, whatever the file held; where
\* the location cannot be written the call ends with an I/O error.
C14_CreatesReplacesOrFails ==
    [][(op = "report" /\ op' = "save") =>
          IF Writable(fs)
          THEN /\ error' = ""
               /\ fs'.parent = (IF fs.parent = "missing" THEN "dir" ELSE fs.parent)
               /\ fs'.target = "file"
               /\ fs'.text = json_dump(Handed(Len(report)))
          ELSE /\ error' \in OSErrors
               /\ fs'.text = fs.text]_vars

\* a report of the report family, whose location starts without the parent
\* directory, is the text of the file
C14_Witness ==
    /\ Saved
    /\ error = ""
    /\ Column(reference_data, "x") = <<0, 1>>
    /\ fs.parent = "dir"
    /\ fs.target = "file"
    /\ fs.text = json_dump(Handed(Len(report)))

\* --------------------------------------- claims about the life of a detector
\* a step in which the caller changes a report it holds
CallerChangesReport == Len(report') = Len(report) /\ report' # report
\* a step that is a call of one of the four methods
MethodCall == (pc = "constructed" /\ pc' = "done") \/ (op = "report" /\ op' = "save")
NoColumns == [given |-> FALSE, names |-> <<>>]

\* C16: a report is independent of the other reports and of the detector:
\* when the caller changes one report, no other report and no
\* reference_stats of the detector changes with it.
C16_ReportsIndependent ==
    [][CallerChangesReport =>
          /\ reference_stats' = reference_stats
          /\ Cardinality({j \in 1..Len(report) : report'[j] # report[j]}) = 1]_vars

\* C17: no call of detect_drift_ks_test, detect_drift_psi,
\* generate_drift_report or save_report changes reference_stats,
\* reference_data or threshold, the current dataset, or a report the caller
\* already holds.
C17_CallsChangeNothing ==
    [][MethodCall =>
          /\ reference_stats' = reference_stats
          /\ reference_data' = reference_data
          /\ threshold' = threshold
          /\ current_data' = current_data
          /\ \A j \in 1..Len(report) : report'[j] = report[j]]_vars

\* the four methods have been called in turn, the last one saving the report
C17_Witness ==
    /\ Saved
    /\ error = ""
    /\ ks_results # <<>>
    /\ psi_results # <<>>
    /\ report # <<>>
    /\ reference_stats # _compute_statistics(current_data)

\* C18: every report is computed from the reference dataset as it was when
\* the detector was constructed: its sample count, its KS test and its PSI
\* test are those of that dataset, the one reference_stats describes.
C18_ReferenceFixedAtConstruction ==
    \A i \in 1..Len(report) :
        /\ report[i].reference_samples = NumRows(constructed_with)
        /\ <<report[i].ks_test>> =
              detect_drift_ks_test(constructed_with, threshold, current_data,
                                   NoColumns, TRUE).summary
        /\ <<report[i].psi_test>> =
              detect_drift_psi(constructed_with, current_data, NoColumns).summary

\* ------------------------------------------------------ claims about logging
Warnings == {i \in 1..Len(log) : log[i].level = "warning"}
OverallWarnings == {i \in 1..Len(log) : log[i] = LogWarning("drift_overall", "")}
Reported == op = "report" /\ Done /\ report # <<>>

\* C19 as stated: a call of generate_drift_report logs exactly one warning
\* when overall_drift_detected is true and none when it is false.
C19_OneWarningIffDrift ==
    Reported =>
        Cardinality(Warnings) = (IF report[1].overall_drift_detected THEN 1 ELSE 0)

\* C19: a call of generate_drift_report logs the warning that drift was
\* detected exactly once when overall_drift_detected is true and not at all
\* when it is false; every other warning of the call is the warning of one
\* column, drifted or not found.
C19_OneOverallWarningIffDrift ==
    Reported =>
        /\ Cardinality(OverallWarnings) = (IF report[1].overall_drift_detected THEN 1 ELSE 0)
        /\ \A i \in Warnings \ OverallWarnings :
              log[i].msg \in {"drift_detected", "column_not_found"} /\ log[i].col # ""

\* a report with drift: the warnings of the two tests for column x, then
\* the one warning of the report
C19_Witness ==
    /\ Reported
    /\ report[1].overall_drift_detected
    /\ Cardinality(OverallWarnings) = 1
    /\ Cardinality(Warnings) = 3

\* --------------------------------------- claims about monitor_drift_from_files
\* C20: monitor_drift_from_files takes a threshold from its caller, and the
\* KS test of the report uses that threshold.
C20_CallerThresholdUsed ==
    op = "monitor_with_threshold" =>
        /\ error # "TypeError"
        /\ \A i \in 1..Len(report) :
             \A c \in DOMAIN report[i].ks_test.details :
                 report[i].ks_test.details[c].threshold = threshold

\* the parts of C20 that the code keeps: the file is written only once the
\* report is there, and a failure ends the call with its exception
MonitorWritesAfterReport ==
    op = "monitor" =>
        /\ fs.text.k \in {"empty", "string", "object"}
        /\ (error # "") = (report = <<>>)
        /\ fs.text.k = "object" => report # <<>> /\ fs.text = json_dump(Handed(1))

\* ----------------------------------------------------- scenarios of the tests
\* reference x = 1..10 against the disjoint current x = 101..110 or against
\* itself, cut to any number of rows
ScenarioReference == <<1, 2, 3, 4, 5, 6, 7, 8, 9, 10>>
ScenarioCurrent == <<101, 102, 103, 104, 105, 106, 107, 108, 109, 110>>
ScenarioThresholds == {DefaultThreshold, Rat(1, 1), Rat(2, 1)}
ScenarioCurrents == {<<>>, <<Null>>, <<0>>, <<MaxVal>>, <<0, MaxVal>>, <<MaxVal, MaxVal>>,
                     <<0, 1, MaxVal>>}
ScenarioInputs ==
    UNION {{[reference |-> <<NumericColumn("x", SubSeq(ScenarioReference, 1, n))>>,
             current |-> <<NumericColumn("x", c)>>,
             threshold |-> t, columns |-> [given |-> FALSE, names |-> <<>>]] :
               c \in {SubSeq(ScenarioReference, 1, n), SubSeq(ScenarioCurrent, 1, n)},
               t \in ScenarioThresholds} : n \in 1..Len(ScenarioReference)}
    \cup
    {[reference |-> <<NumericColumn("x", a)>>, current |-> <<NumericColumn("x", b)>>,
      threshold |-> t, columns |-> [given |-> FALSE, names |-> <<>>]] :
        a \in UNION {ColumnsOfLen(n) : n \in 0..SaveLen}, b \in ScenarioCurrents,
        t \in ScenarioThresholds}
    \cup
    {[reference |-> <<NumericColumn("x", a)>>, current |-> <<NumericColumn("x", a)>>,
      threshold |-> t, columns |-> [given |-> FALSE, names |-> <<>>]] :
        a \in UNION {ColumnsOfLen(n) : n \in 0..SaveLen}, t \in ScenarioThresholds}

InitScenario == \E in \in ScenarioInputs : Constructed(in, NoFiles)

SpecScenario == InitScenario /\ [][Next]_vars

\* the numeric columns tested by both tests, and their samples
Tested == {c \in CheckedSet : InBoth(c)}
RefSample(c) == dropna(Column(reference_data, c))
CurSample(c) == dropna(Column(current_data, c))
Least(sample) == CHOOSE v \in {sample[i] : i \in 1..Len(sample)} :
                    \A i \in 1..Len(sample) : v <= sample[i]
Greatest(sample) == CHOOSE v \in {sample[i] : i \in 1..Len(sample)} :
                       \A i \in 1..Len(sample) : v >= sample[i]
OutsideReference(c) ==
    /\ RefSample(c) # <<>>
    /\ CurSample(c) # <<>>
    /\ \A i \in 1..Len(CurSample(c)) :
         \/ CurSample(c)[i] < Least(RefSample(c))
         \/ CurSample(c)[i] > Greatest(RefSample(c))
Identical ==
    /\ current_data = reference_data
    /\ NumericColumns(reference_data) # <<>>
    /\ \A c \in Tested : RefSample(c) # <<>>

\* what a detector built on the same reference data with threshold t returns
\* for the same call
OtherKs(t) == detect_drift_ks_test(reference_data, t, current_data, columns, TRUE)
OtherPsi(t) == detect_drift_psi(reference_data, current_data, columns)
OtherReport(t, i) ==
    generate_drift_report(reference_data, t, reference_stats, current_data,
                          report[i].timestamp, TRUE).report[1]
SameKsNumbers(a, b) ==
    /\ DOMAIN a.details = DOMAIN b.details
    /\ \A c \in DOMAIN a.details :
         /\ a.details[c].statistic = b.details[c].statistic
         /\ a.details[c].p_value = b.details[c].p_value

\* C21: the threshold reaches the KS flags only: a detector built on the same
\* reference data with another threshold returns the same PSI summary and
\* the same KS statistic and p_value for every column, from the two tests
\* and in the report.
C21_ThresholdReachesKsFlagsOnly ==
    \A t \in ScenarioThresholds :
        /\ \A i \in 1..Len(psi_results) : <<psi_results[i]>> = OtherPsi(t).summary
        /\ \A i \in 1..Len(ks_results) :
              SameKsNumbers(ks_results[i], OtherKs(t).summary[1])
        /\ \A i \in 1..Len(report) :
              /\ report[i].psi_test = OtherReport(t, i).psi_test
              /\ SameKsNumbers(report[i].ks_test, OtherReport(t, i).ks_test)

\* a KS summary that another threshold would flag differently
C21_Witness ==
    /\ op = "ks"
    /\ ks_results # <<>>
    /\ \E t \in ScenarioThresholds :
         ks_results[1].drifted_features # OtherKs(t).summary[1].drifted_features

C23_IdenticalDataNoDrift ==
    (Identical /\ ~RatLt(Rat(1, 1), threshold)) =>
        /\ \A e \in PsiEntries : e.psi = Num(0) /\ e.drift_level = "none" /\ ~e.is_drifted
        /\ \A e \in KsEntries : ~e.is_drifted
        /\ \A i \in 1..Len(report) : ~report[i].overall_drift_detected

\* the report of the ten rows against themselves at the threshold 1
C23_Witness ==
    /\ Identical
    /\ Column(reference_data, "x") = ScenarioReference
    /\ threshold = Rat(1, 1)
    /\ report # <<>>
    /\ ~report[1].overall_drift_detected

\* the part of C28 that holds of a reference sample with values
BinsOfSamplesWithValues ==
    \A s \in PsiSummaries : \A c \in DOMAIN s.details :
        RefSample(c) # <<>> =>
            LET edges == bin_edges(RefSample(c))
            IN /\ SumSeq(histogram(RefSample(c), edges)) = Len(RefSample(c))
               /\ SumSeq(histogram(CurSample(c), edges)) <= Len(CurSample(c))

\* C28: the bins of a column are those of its reference sample; the
\* fractions of a sample are its bin counts over its number of values: those
\* of the reference sample sum to 1, and current values outside the range of
\* the reference fall in no bin, so the current fractions sum to at most 1.
C28_BinsFromReferenceOnly ==
    \A s \in PsiSummaries : \A c \in DOMAIN s.details :
        LET edges == bin_edges(RefSample(c))
            ref_counts == histogram(RefSample(c), edges)
            curr_counts == histogram(CurSample(c), edges)
            ref_percents == percents(ref_counts, Len(RefSample(c)))
            curr_percents == percents(curr_counts, Len(CurSample(c)))
            inside == {i \in 1..Len(CurSample(c)) :
                          /\ RefSample(c) # <<>>
                          /\ CurSample(c)[i] >= Least(RefSample(c))
                          /\ CurSample(c)[i] <= Greatest(RefSample(c))}
        IN /\ s.details[c].psi = psi_sum(floor_zero(curr_percents), floor_zero(ref_percents))
           /\ \A b \in 1..Bins : ~ref_percents[b].nan
           /\ SumSeq(ref_counts) = Len(RefSample(c))
           /\ RefSample(c) # <<>> => SumSeq(curr_counts) = Cardinality(inside)
           /\ SumSeq(curr_counts) <= Len(CurSample(c))

\* ------------------------------------------------ two detectors, one process
\* A second detector is constructed and called between the calls of the
\* first.  The methods read and write attributes of self only (lines 27-29,
\* 57-98, 113-178, 191-222); the module's LOGGER and the clock are the
\* process's.
programs == <<features_run, labels_run, fed, checks, experiment>>
ownState == <<detector, arguments, pc, op, error, ks_results, psi_results, report,
              fs, stats_aliases, constructed_with, calls>>
NoColumnsGiven == [given |-> FALSE, names |-> <<>>]
PairCalls == 1       \* calls of the second detector, and further calls of the first

\* a plausible slip: reference_stats kept on the class, where the last
\* detector constructed sets it for every detector
PeerConstruct_shared ==
    /\ peer.pc = "unbuilt"
    /\ \E r \in LifeDatasets \ {constructed_with}, c \in LifeDatasets,
          t \in Thresholds \ {threshold} :
         /\ peer' = [pc |-> "constructed", reference_data |-> r, threshold |-> t,
                     reference_stats |-> _compute_statistics(r), current_data |-> c,
                     constructed_with |-> [reference |-> r, threshold |-> t],
                     ks_results |-> <<>>, psi_results |-> <<>>, report |-> <<>>,
                     calls |-> 0]
         /\ reference_stats' = _compute_statistics(r)
    /\ UNCHANGED <<reference_data, threshold, arguments, pc, op, error, ks_results,
                   psi_results, report, fs, stats_aliases, constructed_with, calls>>
    /\ UNCHANGED <<log, clock, programs>>

\* lines 19-29, on another reference dataset
PeerConstruct ==
    /\ peer.pc = "unbuilt"
    /\ \E r \in LifeDatasets \ {constructed_with}, c \in LifeDatasets,
          t \in Thresholds \ {threshold} :
         peer' = [pc |-> "constructed", reference_data |-> r, threshold |-> t,
                  reference_stats |-> _compute_statistics(r), current_data |-> c,
                  constructed_with |-> [reference |-> r, threshold |-> t],
                  ks_results |-> <<>>, psi_results |-> <<>>, report |-> <<>>,
                  calls |-> 0]
    /\ UNCHANGED <<ownState, log, clock, programs>>

PeerCanCall == peer.pc = "constructed" /\ peer.calls < PairCalls

PeerDetectDriftKs ==
    /\ PeerCanCall
    /\ LET r == detect_drift_ks_test(peer.reference_data, peer.threshold,
                                     peer.current_data, NoColumnsGiven, TRUE)
       IN /\ peer' = [peer EXCEPT !.ks_results = r.summary, !.calls = @ + 1]
          /\ log' = log \o r.log
    /\ UNCHANGED <<ownState, clock, programs>>

PeerDetectDriftPsi ==
    /\ PeerCanCall
    /\ LET r == detect_drift_psi(peer.reference_data, peer.current_data, NoColumnsGiven)
       IN /\ peer' = [peer EXCEPT !.psi_results = r.summary, !.calls = @ + 1]
          /\ log' = log \o r.log
    /\ UNCHANGED <<ownState, clock, programs>>

PeerGenerateDriftReport ==
    /\ PeerCanCall
    /\ LET r == generate_drift_report(peer.reference_data, peer.threshold,
                                      peer.reference_stats, peer.current_data,
                                      clock, TRUE)
       IN /\ peer' = [peer EXCEPT !.report = @ \o r.report, !.calls = @ + 1]
          /\ log' = log \o r.log
    /\ clock' = clock + 1
    /\ UNCHANGED <<ownState, programs>>

InitPair ==
    /\ \E r \in LifeDatasets, c \in LifeDatasets :
         Built([reference |-> r, current |-> c, threshold |-> DefaultThreshold,
                columns |-> NoColumnsGiven], NoFiles)
    /\ peer = [pc |-> "unbuilt"]
    /\ features_run = Idle
    /\ labels_run = Idle
    /\ fed = Idle
    /\ checks = Idle
    /\ experiment = Idle

NextPair ==
    \/ DetectDriftKs \/ DetectDriftPsi \/ GenerateDriftReport
    \/ (calls < PairCalls /\ NextCall)
    \/ PeerConstruct \/ PeerDetectDriftKs \/ PeerDetectDriftPsi
    \/ PeerGenerateDriftReport

SpecPair == InitPair /\ [][NextPair]_vars

\* what a detector built on ref with threshold thr returns, alone, for cur
AloneKs(ref, thr, cur) ==
    detect_drift_ks_test(ref, thr, cur, NoColumnsGiven, TRUE).summary
AlonePsi(ref, cur) == detect_drift_psi(ref, cur, NoColumnsGiven).summary
AloneReport(ref, thr, cur, now) ==
    generate_drift_report(ref, thr, _compute_statistics(ref), cur, now, TRUE).report[1]
PeerBuilt == peer.pc = "constructed"

\* C24: with a second detector constructed on another reference dataset and
\* called between the calls of the first, the KS summary, the PSI summary
\* and every report of each detector are those the detector returns alone
\* for its own reference data, threshold and current data (the timestamp
\* apart).
C24_DetectorsShareNothing ==
    /\ ks_results \in {<<>>, AloneKs(constructed_with, threshold, current_data)}
    /\ psi_results \in {<<>>, AlonePsi(constructed_with, current_data)}
    /\ \A i \in 1..Len(report) :
          report[i] = AloneReport(constructed_with, threshold, current_data,
                                  report[i].timestamp)
    /\ PeerBuilt =>
          /\ peer.ks_results \in
                {<<>>, AloneKs(peer.constructed_with.reference,
                               peer.constructed_with.threshold, peer.current_data)}
          /\ peer.psi_results \in
                {<<>>, AlonePsi(peer.constructed_with.reference, peer.current_data)}
          /\ \A i \in 1..Len(peer.report) :
                peer.report[i] =
                    AloneReport(peer.constructed_with.reference,
                                peer.constructed_with.threshold, peer.current_data,
                                peer.report[i].timestamp)

\* both detectors have reported, the first of them after the second was
\* constructed and had reported, and their reports differ in more than the
\* timestamp
C24_Witness ==
    /\ PeerBuilt
    /\ peer.report # <<>>
    /\ report # <<>>
    /\ report[Len(report)].timestamp > peer.report[1].timestamp
    /\ report[Len(report)].ks_test # peer.report[1].ks_test
    /\ report[Len(report)].statistics_comparison # peer.report[1].statistics_comparison

\* ------------------------------------------- pipelines/feature_builder.py
\* build_features(batch).  A table is a sequence of rows; the rows carry
\* node_id and the readings risk_score_proxy is computed from (heart_rate;
\* pm25 and humidity; temp_c).  The other readings are aggregated into
\* columns of their own that the score does not read.
FeatureRows == 2     \* rows of a table of the batch
FeatureNodes == {0, 1}
FeatureReadings == {Null, MaxVal}
FeatureColumns ==
    <<"node_id", "hr_mean", "spo2_min", "temp_mean", "step_sum", "pm25_mean", "pm10_mean",
      "humidity_mean", "temp_c_mean", "rel_humidity_mean", "wind_speed_mean",
      "risk_score_proxy">>

RECURSIVE SortedSeq(_)
SortedSeq(S) ==
    IF S = {} THEN <<>>
    ELSE LET least == CHOOSE x \in S : \A y \in S : x <= y
         IN <<least>> \o SortedSeq(S \ {least})

\* the keys of groupby("node_id"), sorted
GroupKeys(table) == SortedSeq({table[i].node_id : i \in 1..Len(table)})
GroupValues(table, node, col) ==
    LET rows == SelectSeq(table, LAMBDA r : r.node_id = node /\ r[col] # Null)
    IN [i \in 1..Len(rows) |-> rows[i][col]]

\* a plausible slip: "std" for "mean"; a group of one row has no sample
\* standard deviation
group_std(table, node, col) ==
    LET vals == GroupValues(table, node, col)
        n == Len(vals)
        dev2 == SumSeq([i \in 1..n |-> (n * vals[i] - SumSeq(vals)) * (n * vals[i] - SumSeq(vals))])
    IN IF n < 2 THEN NaN
       ELSE Num(IsqrtIn((dev2 * Scale * Scale) \div (n * n * (n - 1)), 0, Scale * (MaxVal + 1)))

\* ("<col>", "mean"): the mean of the non-null values of the group, NaN when
\* it has none, in units of 1/Scale
group_mean(table, node, col) ==
    LET vals == GroupValues(table, node, col)
    IN IF vals = <<>> THEN NaN ELSE Num((SumSeq(vals) * Scale) \div Len(vals))

\* lines 23-52: the three aggregates, one row per node_id
wearable_agg(wearables) ==
    LET keys == GroupKeys(wearables)
    IN [i \in 1..Len(keys) |->
           [node_id |-> keys[i], hr_mean |-> group_mean(wearables, keys[i], "heart_rate")]]
air_agg(air) ==
    LET keys == GroupKeys(air)
    IN [i \in 1..Len(keys) |->
           [node_id |-> keys[i], pm25_mean |-> group_mean(air, keys[i], "pm25"),
            humidity_mean |-> group_mean(air, keys[i], "humidity")]]
weather_agg(weather) ==
    LET keys == GroupKeys(weather)
    IN [i \in 1..Len(keys) |->
           [node_id |-> keys[i], temp_c_mean |-> group_mean(weather, keys[i], "temp_c")]]

\* left.merge(right, on="node_id"): the inner join, in the order of left
merge(left, right) ==
    LET kept == SelectSeq(left, LAMBDA l : \E j \in 1..Len(right) : right[j].node_id = l.node_id)
    IN [i \in 1..Len(kept) |->
           kept[i] @@ right[CHOOSE j \in 1..Len(right) : right[j].node_id = kept[i].node_id]]

\* lines 55-60: (0.4 pm25_mean + 0.2 humidity_mean + 0.2 hr_mean
\* + 0.2 temp_c_mean) / 100; NaN when a term is
risk_score_proxy(f) ==
    IF f.pm25_mean.nan \/ f.humidity_mean.nan \/ f.hr_mean.nan \/ f.temp_c_mean.nan
    THEN NaN
    ELSE Num((4 * f.pm25_mean.v + 2 * f.humidity_mean.v + 2 * f.hr_mean.v
              + 2 * f.temp_c_mean.v) \div 1000)

build_features(batch) ==
    LET features == merge(merge(wearable_agg(batch.wearable), air_agg(batch.air_quality)),
                          weather_agg(batch.weather))
    IN [columns |-> FeatureColumns,
        rows |-> [i \in 1..Len(features) |->
                     features[i] @@ [risk_score_proxy |-> risk_score_proxy(features[i])]]]

\* the tables of a batch: at most FeatureRows rows, by node_id
NodeRuns ==
    UNION {{ids \in [1..n -> FeatureNodes] : \A i \in 1..(n - 1) : ids[i] <= ids[i + 1]} :
             n \in 0..FeatureRows}
WearableTables ==
    UNION {{[i \in 1..Len(ids) |-> [node_id |-> ids[i], heart_rate |-> v[i]]] :
              v \in [1..Len(ids) -> FeatureReadings]} : ids \in NodeRuns}
AirReadings == {<<MaxVal, 1>>, <<Null, 1>>, <<Null, Null>>}
AirTables ==
    UNION {{[i \in 1..Len(ids) |->
                [node_id |-> ids[i], pm25 |-> v[i][1], humidity |-> v[i][2]]] :
              v \in [1..Len(ids) -> AirReadings]} : ids \in NodeRuns}
WeatherTables ==
    UNION {{[i \in 1..Len(ids) |-> [node_id |-> ids[i], temp_c |-> v[i]]] :
              v \in [1..Len(ids) -> FeatureReadings]} : ids \in NodeRuns}
Batches ==
    {[wearable |-> w, air_quality |-> a, weather |-> t] :
        w \in WearableTables, a \in AirTables, t \in WeatherTables}

InitFeatures ==
    /\ NoDetector
    /\ features_run \in {[pc |-> "called", batch |-> b] : b \in Batches}
    /\ peer = Idle
    /\ labels_run = Idle
    /\ fed = Idle
    /\ checks = Idle
    /\ experiment = Idle

BuildFeatures ==
    /\ features_run.pc = "called"
    /\ features_run' = [pc |-> "returned", batch |-> features_run.batch,
                        features |-> build_features(features_run.batch)]
    /\ UNCHANGED <<drift, peer, labels_run, fed, checks, experiment>>

NextFeatures == BuildFeatures

SpecFeatures == InitFeatures /\ [][NextFeatures]_vars

NodesOf(table) == {table[i].node_id : i \in 1..Len(table)}
NoNullReading(table, cols) ==
    \A i \in 1..Len(table) : \A c \in cols : table[i][c] # Null
\* every reading of the batch is non-null and the three tables have rows
\* for the same node ids
NonNullSameNodes(batch) ==
    /\ NoNullReading(batch.wearable, {"heart_rate"})
    /\ NoNullReading(batch.air_quality, {"pm25", "humidity"})
    /\ NoNullReading(batch.weather, {"temp_c"})
    /\ NodesOf(batch.wearable) = NodesOf(batch.air_quality)
    /\ NodesOf(batch.air_quality) = NodesOf(batch.weather)

\* C25: for a batch whose three tables hold non-null readings for the same
\* node ids, build_features returns a table with the column
\* risk_score_proxy, a row for each of the node ids, and no null in that
\* column.
C25_RiskScoreProxyNotNull ==
    (features_run.pc = "returned" /\ NonNullSameNodes(features_run.batch)) =>
        LET features == features_run.features
        IN /\ \E i \in 1..Len(features.columns) : features.columns[i] = "risk_score_proxy"
           /\ {features.rows[i].node_id : i \in 1..Len(features.rows)}
                = NodesOf(features_run.batch.wearable)
           /\ \A i \in 1..Len(features.rows) : ~features.rows[i].risk_score_proxy.nan

\* the features of two nodes with one row in every table
C25_Witness ==
    /\ features_run.pc = "returned"
    /\ NonNullSameNodes(features_run.batch)
    /\ Len(features_run.features.rows) = 2
    /\ \A i \in 1..2 : features_run.features.rows[i].risk_score_proxy.v > 0

\* ------------------------------------------------- data/risk_labeling.py
\* create_risk_labels_balanced(df, target_high_risk_ratio).  A frame is its
\* column names and its rows; the rows carry active_minutes, total_steps,
\* one pm_ column and, when the frame has the column, risk_score.
LabelRows == 2       \* rows of the frame
DocumentedColumns == <<"active_minutes", "total_steps", "pm_25">>
LabelRatios == {Rat(1, 2), Rat(1, 4)}
LabelRowValues ==
    {[active_minutes |-> a, total_steps |-> t, pm_25 |-> p, risk_score |-> r] :
        a \in {0, 2}, t \in {0, 1000}, p \in {0, 1}, r \in {0, 1}}
LabelRowsOfLen(n) == [1..n -> LabelRowValues]
LabelFrames ==
    {[columns |-> DocumentedColumns,
      rows |-> [i \in 1..Len(rows) |-> [rows[i] EXCEPT !.risk_score = Null]]] :
        rows \in UNION {LabelRowsOfLen(n) : n \in 0..LabelRows}}
    \cup
    {[columns |-> DocumentedColumns \o <<"risk_score">>, rows |-> rows] :
        rows \in UNION {LabelRowsOfLen(n) : n \in 0..LabelRows}}

HasName(names, c) == \E i \in 1..Len(names) : names[i] = c
CountLT(seq, v) == Cardinality({i \in 1..Len(seq) : seq[i] < v})
Sorted(seq) ==
    [k \in 1..Len(seq) |->
        CHOOSE v \in {seq[i] : i \in 1..Len(seq)} : CountLT(seq, v) < k /\ k <= CountLE(seq, v)]

\* lines 26-28, in units of 1/2000: active_minutes * 0.5 + total_steps / 1000
cardio_load(row) == 1000 * row.active_minutes + 2 * row.total_steps
\* line 29: the mean of the columns whose name contains "pm_"
pollution_load(row) == row.pm_25

\* lines 32-33: (x - min) / (max - min); 0/0 is NaN, and so are the min and
\* max of no rows
min_max_norm(x, all) ==
    IF all = <<>> \/ Greatest(all) = Least(all) THEN RNaN
    ELSE Rat(x - Least(all), Greatest(all) - Least(all))

\* line 37: (pollution_norm + (1 - cardio_norm)) / 2
risk_score_of(pollution_norm, cardio_norm) ==
    IF pollution_norm.nan \/ cardio_norm.nan THEN RNaN
    ELSE Rat(pollution_norm.num * cardio_norm.den
             + (cardio_norm.den - cardio_norm.num) * pollution_norm.den,
             2 * pollution_norm.den * cardio_norm.den)

\* Series.quantile(1 - ratio), by linear interpolation; NaN of no values
quantile(values, ratio) ==
    LET n == Len(values)
        sorted == Sorted(values)
        pos == (n - 1) * (ratio.den - ratio.num)
        k == pos \div ratio.den
        rem == pos % ratio.den
    IN IF n = 0 THEN RNaN
       ELSE Rat(sorted[k + 1] * (ratio.den - rem)
                + (IF rem > 0 THEN sorted[k + 2] * rem ELSE 0), ratio.den)

\* the call: the two load columns are written into the caller's frame, then
\* line 40 reads the column "risk_score" of the frame.  risk_score is a
\* local of the function (line 37): the frame has such a column only if the
\* caller put one there, and df["risk_score"] raises KeyError otherwise.
create_risk_labels_balanced(df, target_high_risk_ratio) ==
    LET n == Len(df.rows)
        cardio == [i \in 1..n |-> cardio_load(df.rows[i])]
        pollution == [i \in 1..n |-> pollution_load(df.rows[i])]
        risk_score == [i \in 1..n |->
                          risk_score_of(min_max_norm(pollution[i], pollution),
                                        min_max_norm(cardio[i], cardio))]
        loaded == df.columns \o <<"cardio_load", "pollution_load">>
        threshold_ == quantile([i \in 1..n |-> df.rows[i].risk_score],
                               target_high_risk_ratio)
    IN IF ~HasName(df.columns, "risk_score")
       THEN [error |-> "KeyError", columns |-> loaded, risk_proxy |-> <<>>]
       ELSE [error |-> "", columns |-> loaded \o <<"risk_proxy">>,
             risk_proxy |-> [i \in 1..n |->
                                IF RatLt(threshold_, risk_score[i]) THEN 1 ELSE 0]]

InitLabels ==
    /\ NoDetector
    /\ labels_run \in {[pc |-> "called", df |-> df, target_high_risk_ratio |-> r] :
                         df \in LabelFrames, r \in LabelRatios}
    /\ peer = Idle
    /\ features_run = Idle
    /\ fed = Idle
    /\ checks = Idle
    /\ experiment = Idle

CreateRiskLabelsBalanced ==
    /\ labels_run.pc = "called"
    /\ LET out == create_risk_labels_balanced(labels_run.df,
                                              labels_run.target_high_risk_ratio)
       IN labels_run' = [pc |-> IF out.error = "" THEN "returned" ELSE "raised",
                         df |-> labels_run.df,
                         target_high_risk_ratio |-> labels_run.target_high_risk_ratio,
                         out |-> out]
    /\ UNCHANGED <<drift, peer, features_run, fed, checks, experiment>>

NextLabels == CreateRiskLabelsBalanced

SpecLabels == InitLabels /\ [][NextLabels]_vars

\* the frame the docstring describes: the three inputs and nothing else
Documented(df) == df.columns = DocumentedColumns

\* C26: given a frame with active_minutes, total_steps and a pm_ column the
\* call returns normally, and the frame returned has a column risk_proxy
\* holding 0.0 or 1.0 for every row.
C26_ReturnsRiskProxy ==
    (labels_run.pc # "called" /\ Documented(labels_run.df)) =>
        /\ labels_run.pc = "returned"
        /\ HasName(labels_run.out.columns, "risk_proxy")
        /\ Len(labels_run.out.risk_proxy) = Len(labels_run.df.rows)
        /\ \A i \in 1..Len(labels_run.out.risk_proxy) : labels_run.out.risk_proxy[i] \in {0, 1}

\* -------------------------------------------- run_aggregation_visualization.py
\* The training loop of the script.  A model is its state_dict: a value, in
\* units of 1/Scale, for each key.  What an optimizer makes of a model in a
\* round of local training depends on the node's data: any trained value.
NUM_NODES == 3
MaxRounds == 2       \* rounds of the loop that are followed (NUM_ROUNDS is 10)
StateKeys == {"weight", "bias"}
TrainedValues == {0, Scale}
TrainedModels == [StateKeys -> TrainedValues]

\* a plausible slip: the averages are loaded into the other models only, the
\* first one being taken for the global model already
federated_averaging_others(models) ==
    LET global_state ==
            [key \in StateKeys |->
                SumSeq([i \in 1..Len(models) |-> models[i][key]]) \div Len(models)]
    IN [models |-> [i \in 1..Len(models) |-> IF i = 1 THEN models[i] ELSE global_state],
        global_state |-> global_state]

\* lines 105-117: for each key the mean over the models (torch.stack of the
\* models' tensors, .mean(0)), then load_state_dict of the result into every
\* model
federated_averaging(models) ==
    LET global_state ==
            [key \in StateKeys |->
                SumSeq([i \in 1..Len(models) |-> models[i][key]]) \div Len(models)]
    IN [models |-> [i \in 1..Len(models) |-> global_state],
        global_state |-> global_state]

\* lines 49-53: one model per node, each initialised on its own
InitFed ==
    /\ NoDetector
    /\ fed \in {[pc |-> "train", round_num |-> 0, node_id |-> 0, models |-> m,
                 before |-> <<>>, evaluated |-> 0, saved |-> <<>>] :
                   m \in [1..NUM_NODES -> TrainedModels]}
    /\ peer = Idle
    /\ features_run = Idle
    /\ labels_run = Idle
    /\ checks = Idle
    /\ experiment = Idle

\* lines 138-153: phase 1 for one node: train_node changes the node's model,
\* evaluate_model reads it
TrainNode ==
    /\ fed.pc = "train"
    /\ \E trained \in TrainedModels :
         fed' = [fed EXCEPT !.models[fed.node_id + 1] = trained,
                            !.node_id = @ + 1,
                            !.pc = IF fed.node_id + 1 = NUM_NODES THEN "aggregate"
                                   ELSE "train"]
    /\ UNCHANGED <<drift, peer, features_run, labels_run, checks, experiment>>

\* line 164: phase 2
FederatedAveraging ==
    /\ fed.pc = "aggregate"
    /\ fed' = [fed EXCEPT !.before = fed.models,
                          !.models = federated_averaging(fed.models).models,
                          !.pc = "evaluate"]
    /\ UNCHANGED <<drift, peer, features_run, labels_run, checks, experiment>>

\* lines 166-179: phase 3 reads the models; the loop then goes on to the next
\* round or ends
EvaluateAfter ==
    /\ fed.pc = "evaluate"
    /\ fed' = [fed EXCEPT !.evaluated = @ + 1,
                          !.round_num = @ + 1,
                          !.node_id = 0,
                          !.pc = IF fed.round_num + 1 = MaxRounds THEN "save" ELSE "train"]
    /\ UNCHANGED <<drift, peer, features_run, labels_run, checks, experiment>>

\* lines 260-269: the state_dict of the first node's model is saved
SaveGlobalModel ==
    /\ fed.pc = "save"
    /\ fed' = [fed EXCEPT !.saved = <<fed.models[1]>>, !.pc = "done"]
    /\ UNCHANGED <<drift, peer, features_run, labels_run, checks, experiment>>

NextFed == TrainNode \/ FederatedAveraging \/ EvaluateAfter \/ SaveGlobalModel

SpecFed == InitFed /\ [][NextFed]_vars

AllModelsEqual == \A i, j \in 1..NUM_NODES : fed.models[i] = fed.models[j]
\* v is, to the rounding of the division, the unweighted mean of the values
\* the models held for the key before the call
IsMeanOfBefore(v, key) ==
    LET total == SumSeq([i \in 1..NUM_NODES |-> fed.before[i][key]])
    IN NUM_NODES * v <= total /\ total < NUM_NODES * v + NUM_NODES
BetweenRounds == fed.pc = "train" /\ fed.node_id = 0 /\ fed.round_num > 0

\* C27: after federated_averaging every node's model holds, for every key,
\* the unweighted mean of the values the models held before the call; at
\* the end of every round all node models are equal; the model saved, the
\* first node's, equals every node's model.
C27_AllModelsHoldTheMean ==
    /\ fed.pc = "evaluate" =>
          /\ AllModelsEqual
          /\ \A i \in 1..NUM_NODES : \A key \in StateKeys :
                IsMeanOfBefore(fed.models[i][key], key)
    /\ (BetweenRounds \/ fed.pc = "save") => AllModelsEqual
    /\ fed.pc = "done" =>
          /\ fed.saved # <<>>
          /\ \A i \in 1..NUM_NODES : fed.saved[1] = fed.models[i]

\* the model saved after a last round in which the nodes had trained to
\* different models
C27_Witness ==
    /\ fed.pc = "done"
    /\ fed.saved # <<>>
    /\ \E i, j \in 1..NUM_NODES : fed.before[i] # fed.before[j]
    /\ \A i \in 1..NUM_NODES : fed.saved[1] = fed.models[i]
    /\ fed.saved[1] # fed.before[1]

\* ------------------------------------- monitoring/run_checks.py, drift.py
\* The runs of the drift-check CLI against one feature store and one
\* baseline path.  The store is the rows of the table features, oldest
\* first; a row carries node_id and one feature.
MaxStore == 3        \* rows of the feature store
MaxRuns == 2         \* runs of the CLI
CheckThreshold == 2000
StoredValues == {0, 1, MaxVal}
StoreColumns == <<"node_id", "risk_score_proxy">>
StoreRow(v) == [node_id |-> 0, risk_score_proxy |-> v]

\* lines 14-17: the latest rows first (the store holds fewer rows than the
\* limit of 1000)
fetch_latest_features(store) ==
    [columns |-> StoreColumns,
     rows |-> [i \in 1..Len(store) |-> store[Len(store) + 1 - i]]]

\* DataFrame.to_parquet and pd.read_parquet: the schema and one row group
to_parquet(df) == [magic |-> "PAR1", schema |-> df.columns, row_groups |-> <<df.rows>>]
read_parquet(file) == [columns |-> file.schema, rows |-> file.row_groups[1]]

FeatureColumn(df, feat) == dropna([i \in 1..Len(df.rows) |-> df.rows[i][feat]])

\* drift.py lines 10-11: expected.quantile(np.linspace(0, 1, bins + 1)), by
\* linear interpolation, in units of 1/Bins
breakpoints(expected) ==
    LET sorted == Sorted(expected)
    IN [k \in 1..(Bins + 1) |->
           LET pos == (Len(expected) - 1) * (k - 1)
               lo == pos \div Bins
               rem == pos % Bins
           IN sorted[lo + 1] * (Bins - rem) + (IF rem > 0 THEN sorted[lo + 2] * rem ELSE 0)]

\* drift.py lines 12-13: np.histogram(values, bins=breakpoints)[0]: the
\* values below each edge are counted, the last bin holds its right edge
CountBelow(values, edge, closed) ==
    Cardinality({i \in 1..Len(values) :
                   Bins * values[i] < edge \/ (closed /\ Bins * values[i] = edge)})
histogram_at(values, edges) ==
    [b \in 1..Bins |->
        CountBelow(values, edges[b + 1], b = Bins) - CountBelow(values, edges[b], FALSE)]

\* drift.py lines 15-16: np.where(counts == 0, 1e-4, counts / counts.sum())
perc(counts) ==
    [b \in 1..Bins |-> IF counts[b] = 0 THEN Num(1)
                       ELSE Num((counts[b] * Scale) \div SumSeq(counts))]

\* drift.py lines 9-18: psi(expected, actual), expected with values
drift_psi(expected, actual) ==
    LET edges == breakpoints(expected)
    IN psi_sum(perc(histogram_at(actual, edges)), perc(histogram_at(expected, edges)))

\* drift.py lines 21-31
check_feature_drift(baseline, current, features, thr) ==
    LET psi_scores == [feat \in features |->
                          drift_psi(FeatureColumn(baseline, feat), FeatureColumn(current, feat))]
    IN [scores |-> psi_scores,
        alerts |-> {feat \in features : ~psi_scores[feat].nan /\ psi_scores[feat].v > thr}]

\* run_checks.py line 39: the columns of current but node_id
FeaturesOf(current) ==
    {current.columns[i] : i \in 1..Len(current.columns)} \ {"node_id"}

InitChecks ==
    /\ NoDetector
    /\ checks \in {[pc |-> "start", store |-> store, baseline_file |-> <<>>,
                    current |-> <<>>, baseline |-> <<>>, result |-> <<>>, runs |-> 0] :
                      store \in UNION {[1..n -> {StoreRow(v) : v \in StoredValues}] :
                                         n \in 1..(MaxStore - 1)}}
    /\ peer = Idle
    /\ features_run = Idle
    /\ labels_run = Idle
    /\ fed = Idle
    /\ experiment = Idle

\* the pipeline appends a row to the store, whenever
StoreGrows ==
    /\ checks.pc # "idle"
    /\ Len(checks.store) < MaxStore
    /\ \E v \in StoredValues : checks' = [checks EXCEPT !.store = Append(@, StoreRow(v))]
    /\ UNCHANGED <<drift, peer, features_run, labels_run, fed, experiment>>

\* line 27
FetchCurrent ==
    /\ checks.pc = "start"
    /\ checks' = [checks EXCEPT !.current = fetch_latest_features(checks.store),
                                !.pc = "fetched"]
    /\ UNCHANGED <<drift, peer, features_run, labels_run, fed, experiment>>

\* a plausible slip: the baseline is refreshed by every run
LoadOrCreateBaseline_refreshing ==
    /\ checks.pc = "fetched"
    /\ checks' = [checks EXCEPT !.baseline = checks.current,
                                !.baseline_file = <<to_parquet(checks.current)>>,
                                !.pc = "loaded"]
    /\ UNCHANGED <<drift, peer, features_run, labels_run, fed, experiment>>

\* lines 28-34: the baseline is read from the file when there is one; else
\* it is a copy of current, written to the file
LoadOrCreateBaseline ==
    /\ checks.pc = "fetched"
    /\ IF checks.baseline_file # <<>>
       THEN checks' = [checks EXCEPT !.baseline = read_parquet(checks.baseline_file[1]),
                                     !.pc = "loaded"]
       ELSE checks' = [checks EXCEPT !.baseline = checks.current,
                                     !.baseline_file = <<to_parquet(checks.current)>>,
                                     !.pc = "loaded"]
    /\ UNCHANGED <<drift, peer, features_run, labels_run, fed, experiment>>

\* lines 36-46
CheckFeatureDrift ==
    /\ checks.pc = "loaded"
    /\ checks' = [checks EXCEPT
                    !.result = <<check_feature_drift(checks.baseline, checks.current,
                                                     FeaturesOf(checks.current),
                                                     CheckThreshold)>>,
                    !.runs = @ + 1,
                    !.pc = "done"]
    /\ UNCHANGED <<drift, peer, features_run, labels_run, fed, experiment>>

\* the CLI is run again
RunAgain ==
    /\ checks.pc = "done"
    /\ checks.runs < MaxRuns
    /\ checks' = [checks EXCEPT !.pc = "start", !.current = <<>>, !.baseline = <<>>,
                                !.result = <<>>]
    /\ UNCHANGED <<drift, peer, features_run, labels_run, fed, experiment>>

NextChecks ==
    \/ StoreGrows \/ FetchCurrent \/ LoadOrCreateBaseline \/ CheckFeatureDrift \/ RunAgain

SpecChecks == InitChecks /\ [][NextChecks]_vars

\* C29: a step of a run leaves a baseline file that exists as it is; a step
\* that creates the file is the step of a run that found none, and the file
\* then holds that run's current features; a run compares its current
\* features against the baseline the file holds.
C29_BaselineWrittenOnce ==
    [][/\ checks.baseline_file # <<>> => checks'.baseline_file = checks.baseline_file
       /\ (checks.baseline_file = <<>> /\ checks'.baseline_file # <<>>) =>
             /\ checks.pc = "fetched"
             /\ read_parquet(checks'.baseline_file[1]) = checks.current
       /\ (checks.pc = "loaded" /\ checks'.pc = "done") =>
             checks'.result =
                 <<check_feature_drift(read_parquet(checks.baseline_file[1]),
                                       checks.current, {"risk_score_proxy"},
                                       CheckThreshold)>>]_vars

\* a second run that raises an alert against the baseline the first run
\* stored, the store having grown in between
C29_Witness ==
    /\ checks.pc = "done"
    /\ checks.runs = 2
    /\ checks.baseline_file # <<>>
    /\ read_parquet(checks.baseline_file[1]) # checks.current
    /\ checks.result[1].alerts = {"risk_score_proxy"}

\* --------------------------------------- scripts/run_federated_experiment.py
\* run_federated_experiment(num_nodes, num_rounds): the position of the
\* call, the server and client processes it has started, and how it ended.
\* A process is "running", "exited" (on its own, or killed, not yet waited
\* for) or "reaped" (waited for).
MaxNodes == 3        \* num_nodes

InitExperiment ==
    /\ NoDetector
    /\ experiment \in {[pc |-> "start", num_nodes |-> n, server |-> "none",
                        client_processes |-> <<>>, started |-> <<>>, outcome |-> ""] :
                          n \in 0..MaxNodes}
    /\ peer = Idle
    /\ features_run = Idle
    /\ labels_run = Idle
    /\ fed = Idle
    /\ checks = Idle

Untouched == <<drift, peer, features_run, labels_run, fed, checks>>

\* lines 33-43
StartServer ==
    /\ experiment.pc = "start"
    /\ experiment' = [experiment EXCEPT !.server = "running",
                                        !.started = Append(@, "server"),
                                        !.pc = "clients"]
    /\ UNCHANGED Untouched

\* lines 47-64: one turn of the loop; line 66 follows the last
StartClient ==
    /\ experiment.pc = "clients"
    /\ LET node_id == Len(experiment.client_processes)
       IN IF node_id < experiment.num_nodes
          THEN experiment' =
                   [experiment EXCEPT
                      !.client_processes = Append(@, [node_id |-> node_id, state |-> "running"]),
                      !.started = Append(@, node_id)]
          ELSE experiment' = [experiment EXCEPT !.pc = "monitor"]
    /\ UNCHANGED Untouched

\* a process ends on its own
ServerExits ==
    /\ experiment.pc \notin {"idle", "ended"}
    /\ experiment.server = "running"
    /\ experiment' = [experiment EXCEPT !.server = "exited"]
    /\ UNCHANGED Untouched

ClientExits ==
    /\ experiment.pc \notin {"idle", "ended"}
    /\ \E i \in 1..Len(experiment.client_processes) :
         /\ experiment.client_processes[i].state = "running"
         /\ experiment' = [experiment EXCEPT !.client_processes[i].state = "exited"]
    /\ UNCHANGED Untouched

\* lines 69-73: the loop over the server's output ends with a line that
\* holds "completed" or with the end of the output
MonitorEnds ==
    /\ experiment.pc = "monitor"
    /\ experiment' = [experiment EXCEPT !.pc = "wait_server"]
    /\ UNCHANGED Untouched

\* Ctrl-C.  Lines 69-75 catch KeyboardInterrupt while the output is read;
\* anywhere else it ends the call.
KeyboardInterrupt ==
    /\ experiment.pc \in {"clients", "monitor", "wait_server", "terminate"}
    /\ IF experiment.pc = "monitor"
       THEN experiment' = [experiment EXCEPT !.pc = "wait_server"]
       ELSE experiment' = [experiment EXCEPT !.pc = "ended", !.outcome = "KeyboardInterrupt"]
    /\ UNCHANGED Untouched

\* line 78: server_process.wait(timeout=300) returns when the server has
\* ended and raises TimeoutExpired when it has not within the timeout;
\* nothing catches it
WaitServer ==
    /\ experiment.pc = "wait_server"
    /\ IF experiment.server = "exited"
       THEN experiment' = [experiment EXCEPT !.server = "reaped", !.pc = "terminate"]
       ELSE experiment' = [experiment EXCEPT !.pc = "ended", !.outcome = "TimeoutExpired"]
    /\ UNCHANGED Untouched

\* lines 82-85: terminate() and wait(timeout=5) for the next client that is
\* not reaped; a client that does not end on SIGTERM within the timeout
\* makes wait raise TimeoutExpired.  Lines 87-89 follow the last client.
TerminateClient ==
    /\ experiment.pc = "terminate"
    /\ LET todo == {i \in 1..Len(experiment.client_processes) :
                       experiment.client_processes[i].state # "reaped"}
       IN IF todo = {}
          THEN experiment' = [experiment EXCEPT !.pc = "ended", !.outcome = "returned"]
          ELSE LET i == CHOOSE k \in todo : \A l \in todo : k <= l
               IN \/ experiment' = [experiment EXCEPT !.client_processes[i].state = "reaped"]
                  \/ /\ experiment.client_processes[i].state = "running"
                     /\ experiment' = [experiment EXCEPT !.pc = "ended",
                                                         !.outcome = "TimeoutExpired"]
    /\ UNCHANGED Untouched

NextExperiment ==
    \/ StartServer \/ StartClient \/ ServerExits \/ ClientExits \/ MonitorEnds
    \/ KeyboardInterrupt \/ WaitServer \/ TerminateClient

SpecExperiment == InitExperiment /\ [][NextExperiment]_vars

\* the part of C30 that holds: the server is started first and the clients
\* follow in the order of their node ids
StartedInOrder ==
    \A k \in 1..Len(experiment.started) :
        experiment.started[k] = IF k = 1 THEN "server" ELSE k - 2

\* C30: the server is started before any client and the clients in the
\* order of their node ids; however the call ends (returning, interrupted
\* by the user, or with the server not finishing within the timeout),
\* every client it started has been terminated and waited for.
C30_ClientsAlwaysReaped ==
    /\ StartedInOrder
    /\ experiment.pc = "ended" =>
          \A i \in 1..Len(experiment.client_processes) :
              experiment.client_processes[i].state = "reaped"

====
